---- MODULE Spec2Model ----
(***************************************************************************)
(* Model of the sirpi-google backend: the slug utilities, the project      *)
(* table and ProjectService with its router, each request running in its   *)
(* own database session (READ COMMITTED: every query sees the rows that    *)
(* are committed at the time it runs, every commit is one atomic write).   *)
(***************************************************************************)
EXTENDS Integers, Sequences, FiniteSets, TLC

(***************************************************************************)
(* Bounds of the model                                                     *)
(***************************************************************************)
\* number of project ids (uuid4 values) handed out in one behaviour
MaxProjects == 2

\* the values func.now() takes in one behaviour are 0..MaxClock
MaxClock == 2

\* longest text slugify is called with
MaxTextLen == 4

\* iterations of the loop of generate_unique_slug taken in one step, when the
\* function is called on its own
ProbesPerStep == 25

\* program constants
DefaultMaxLength == 50
MaxCounter == 1000
SuffixRoom == 10
FallbackPrefixLen == 20

Min(a, b) == IF a < b THEN a ELSE b
Max(a, b) == IF a > b THEN a ELSE b

(***************************************************************************)
(* Strings are sequences of one-character strings.                         *)
(***************************************************************************)
UpperChars == <<"A","B","C","D","E","F","G","H","I","J","K","L","M",
                "N","O","P","Q","R","S","T","U","V","W","X","Y","Z">>
LowerChars == <<"a","b","c","d","e","f","g","h","i","j","k","l","m",
                "n","o","p","q","r","s","t","u","v","w","x","y","z">>
DigitChars == <<"0","1","2","3","4","5","6","7","8","9">>
SpaceChars == {" ", "\t", "\n"}

Range(f) == {f[i] : i \in DOMAIN f}

\* s[:k] of Python, negative k included
PySlice(s, k) ==
    IF k >= 0 THEN SubSeq(s, 1, Min(k, Len(s)))
    ELSE SubSeq(s, 1, Max(Len(s) + k, 0))

\* str.lower() on one character
LowerChar(c) ==
    IF \E i \in 1..26 : UpperChars[i] = c
    THEN LowerChars[CHOOSE i \in 1..26 : UpperChars[i] = c]
    ELSE c

ToLower(s) == [i \in 1..Len(s) |-> LowerChar(s[i])]

\* re.sub(r"[\s_]+", "-", text)
RECURSIVE SubSpaces(_)
SubSpaces(s) ==
    IF s = <<>> THEN <<>>
    ELSE IF Head(s) \in SpaceChars \cup {"_"}
         THEN IF Len(s) > 1 /\ s[2] \in SpaceChars \cup {"_"}
              THEN SubSpaces(Tail(s))
              ELSE <<"-">> \o SubSpaces(Tail(s))
         ELSE <<Head(s)>> \o SubSpaces(Tail(s))

\* re.sub(r"[^a-z0-9\-]", "", text)
SlugChars == Range(LowerChars) \cup Range(DigitChars) \cup {"-"}
DropNonSlug(s) == SelectSeq(s, LAMBDA c : c \in SlugChars)

\* mutant: runs of hyphens are left as they are
SquashHyphens_Off(s) == s

\* re.sub(r"-+", "-", text)
RECURSIVE SquashHyphens(_)
SquashHyphens(s) ==
    IF s = <<>> THEN <<>>
    ELSE IF Head(s) = "-" /\ Len(s) > 1 /\ s[2] = "-"
         THEN SquashHyphens(Tail(s))
         ELSE <<Head(s)>> \o SquashHyphens(Tail(s))

\* text.strip("-")
RECURSIVE StripLeft(_)
StripLeft(s) ==
    IF s # <<>> /\ Head(s) = "-" THEN StripLeft(Tail(s)) ELSE s
RECURSIVE StripRight(_)
StripRight(s) ==
    IF s # <<>> /\ s[Len(s)] = "-" THEN StripRight(SubSeq(s, 1, Len(s) - 1)) ELSE s
StripHyphens(s) == StripRight(StripLeft(s))

ProjectWord == <<"p","r","o","j","e","c","t">>

slugify(text) ==
    IF text = <<>> THEN <<>>
    ELSE LET t == StripHyphens(SquashHyphens(DropNonSlug(SubSpaces(ToLower(text)))))
         IN  IF t = <<>> THEN ProjectWord ELSE t

\* str(counter)
RECURSIVE IntToStr(_)
IntToStr(n) ==
    IF n < 10 THEN <<DigitChars[n + 1]>>
    ELSE IntToStr(n \div 10) \o <<DigitChars[(n % 10) + 1]>>

(***************************************************************************)
(* generate_unique_slug: the loop, one probe of the table per iteration.   *)
(* A loop state is [base, slug, counter]; ProbeStep is one iteration given *)
(* the answer of the existence query and the uuid4 prefix the fallback     *)
(* would draw.                                                             *)
(***************************************************************************)
UuidPrefixes == { <<"2","e","2","b","3","f","9","f">>,
                  <<"0","0","c","0","f","f","e","e">> }

ProbeStart(base_slug, max_length) ==
    LET b == IF Len(base_slug) > max_length - SuffixRoom
             THEN PySlice(base_slug, max_length - SuffixRoom)
             ELSE base_slug
    IN  [base |-> b, slug |-> b, counter |-> 1]

\* mutant: the base is never cut to make room for the suffix
NextCandidate_NoTruncation(base, counter, max_length) ==
    base \o <<"-">> \o IntToStr(counter)

NextCandidate(base, counter, max_length) ==
    LET suffix == <<"-">> \o IntToStr(counter)
        max_base_length == max_length - Len(suffix)
        truncated_base == IF Len(base) > max_base_length
                          THEN PySlice(base, max_base_length)
                          ELSE base
    IN  truncated_base \o suffix

\* mutant: the test of the query's answer is inverted
ProbeStep_ReturnsTaken(st, existing, max_length, u) ==
    IF existing
    THEN [done |-> TRUE, value |-> st.slug, st |-> st]
    ELSE LET next == [base |-> st.base,
                      slug |-> NextCandidate(st.base, st.counter, max_length),
                      counter |-> st.counter + 1]
         IN  IF next.counter > MaxCounter
             THEN [done |-> TRUE,
                   value |-> PySlice(st.base, FallbackPrefixLen) \o <<"-">> \o u,
                   st |-> next]
             ELSE [done |-> FALSE, value |-> <<>>, st |-> next]

\* mutant: the safety check lets one more candidate be probed
ProbeStep_OneMoreProbe(st, existing, max_length, u) ==
    IF ~existing
    THEN [done |-> TRUE, value |-> st.slug, st |-> st]
    ELSE LET next == [base |-> st.base,
                      slug |-> NextCandidate(st.base, st.counter, max_length),
                      counter |-> st.counter + 1]
         IN  IF next.counter > MaxCounter + 1
             THEN [done |-> TRUE,
                   value |-> PySlice(st.base, FallbackPrefixLen) \o <<"-">> \o u,
                   st |-> next]
             ELSE [done |-> FALSE, value |-> <<>>, st |-> next]

\* one iteration; returns [done, value] or the next loop state
ProbeStep(st, existing, max_length, u) ==
    IF ~existing
    THEN [done |-> TRUE, value |-> st.slug, st |-> st]
    ELSE LET next == [base |-> st.base,
                      slug |-> NextCandidate(st.base, st.counter, max_length),
                      counter |-> st.counter + 1]
         IN  IF next.counter > MaxCounter
             THEN [done |-> TRUE,
                   value |-> PySlice(st.base, FallbackPrefixLen) \o <<"-">> \o u,
                   st |-> next]
             ELSE [done |-> FALSE, value |-> <<>>, st |-> next]



(***************************************************************************)
(* The tables and the requests in flight                                   *)
(***************************************************************************)
\* Database sessions, one per request being handled. A request takes the
\* free session of lowest number: sessions are interchangeable.
Sessions == {1, 2}
Users == {"u1", "u2"}
RepoIds == {"r0", "r1", "r2"}
ProjectIds == 1..MaxProjects
None == "None"

\* project names of create_project requests; both normalize to "demo"
Names == { <<"D","e","m","o">>, <<" ","d","e","m","o","!">> }
OneName == { <<"D","e","m","o">> }

VARIABLES
    repositories,   \* repository id -> row of table repositories
    projects,       \* project id -> row of table projects
    nextId,         \* the next value uuid.uuid4() hands to a new project
    sess,           \* session -> the request it is handling
    last,           \* the request answered last, with what the service returned
    now,            \* what func.now() of the database returns
    dependents,     \* rows of agent_sessions, generated_files, cloud_resources
    gen,            \* a direct call of slugify or generate_unique_slug
    installations,  \* the rows of table github_installations, in insertion order
    users,          \* the rows of table users, in insertion order
    delivery,       \* a webhook delivery and what each handler made of it
    settings        \* app.config.settings

vars == <<repositories, projects, nextId, sess, last, now, dependents, gen,
          installations, users, delivery, settings>>

InFlightStatuses == {"analyzing", "planning", "generating", "deploying"}
ProjectStatuses == {"initializing", "analyzing", "planning", "generating",
                    "configuring", "deploying", "deployed", "failed", "paused"}

\* ProjectService._detect_framework
DetectFramework(repository) ==
    IF repository.language = <<>> THEN None
    ELSE LET language_lower == ToLower(repository.language)
         IN  IF language_lower \in { <<"j","a","v","a","s","c","r","i","p","t">>,
                                     <<"t","y","p","e","s","c","r","i","p","t">> }
             THEN "nextjs"
             ELSE IF language_lower = <<"p","y","t","h","o","n">> THEN "fastapi"
             ELSE IF language_lower = <<"g","o">> THEN "go"
             ELSE IF language_lower = <<"j","a","v","a">> THEN "java"
             ELSE IF language_lower = <<"r","u","s","t">> THEN "rust"
             ELSE "other"

\* name.strip()
RECURSIVE LStrip(_)
LStrip(s) == IF s # <<>> /\ Head(s) \in SpaceChars THEN LStrip(Tail(s)) ELSE s
RECURSIVE RStrip(_)
RStrip(s) ==
    IF s # <<>> /\ s[Len(s)] \in SpaceChars THEN RStrip(SubSeq(s, 1, Len(s) - 1)) ELSE s
Strip(s) == RStrip(LStrip(s))

\* a NULL in a JSON column
NoData == [null |-> TRUE]

\* mutant: the slug column is filled from the name, not from the probed slug
NewProject_NameAsSlug(user_id, repository_id, name, slug, repository) ==
    [user_id |-> user_id,
     repository_id |-> repository_id,
     name |-> Strip(name),
     slug |-> ToLower(Strip(name)),
     status |-> "initializing",
     framework |-> DetectFramework(repository),
     current_agent |-> None,
     workflow_phase |-> None,
     agent_coordination_data |-> NoData,
     deployment_status |-> "not_started"]

\* Project(...) as create_project builds it
NewProject(user_id, repository_id, name, slug, repository) ==
    [user_id |-> user_id,
     repository_id |-> repository_id,
     name |-> Strip(name),
     slug |-> slug,
     status |-> "initializing",
     framework |-> DetectFramework(repository),
     current_agent |-> None,
     workflow_phase |-> None,
     agent_coordination_data |-> NoData,
     deployment_status |-> "not_started"]

\* server_default=func.now() of created_at / updated_at, filled in by the INSERT
ServerDefaults(row) ==
    [f \in DOMAIN row \cup {"updated_at"} |->
        IF f = "updated_at" THEN now ELSE row[f]]

NoProject == 0
NoProbe == [base |-> <<>>, slug |-> <<>>, counter |-> 0]

\* what a service call gives back: an instance, None, a bool, a dict, or a raised error
NoResult == [kind |-> "pending", detail |-> "", id |-> NoProject]
Instance(project_id) == [kind |-> "Project", detail |-> "", id |-> project_id]
ReturnNone == [kind |-> "None", detail |-> "", id |-> NoProject]
ReturnTrue == [kind |-> "True", detail |-> "", id |-> NoProject]
ReturnFalse == [kind |-> "False", detail |-> "", id |-> NoProject]
ReturnDict(project_id) == [kind |-> "dict", detail |-> "", id |-> project_id]
Raise(kind, detail) == [kind |-> kind, detail |-> detail, id |-> NoProject]
ReturnTuple(page, total) ==
    [kind |-> "tuple", detail |-> "", id |-> NoProject, page |-> page, total |-> total]

\* no direct call of the slug utilities is under way
NoCall == [pc |-> "none"]

\* skip, limit and the total of a list_user_projects call
NoWindow == [skip |-> 0, limit |-> 0, total |-> 0]

\* the service was called without a request body having been parsed
NoBody == [absent |-> TRUE]

\* no row of github_installations, users or repositories was loaded
NoRow == 0

IdleSlot ==
    [pc |-> "idle", op |-> None, user |-> None, pid |-> NoProject, repo |-> None,
     name |-> <<>>, probe |-> NoProbe, config |-> NoData, writes |-> <<>>,
     window |-> NoWindow, updates |-> <<>>, body |-> NoBody,
     installation |-> None, row |-> NoRow, github_id |-> None,
     full_name |-> None]

NoRequest ==
    [op |-> None, user |-> None, pid |-> NoProject, repo |-> None,
     result |-> NoResult, installation |-> None, row |-> 0, github_id |-> None]

Free(s) == sess[s].pc = "idle"

\* SessionLocal() for a new request
FirstFree(s) == Free(s) /\ \A t \in Sessions : t < s => ~Free(t)

Request(op, user_id, project_id, repository_id) ==
    [IdleSlot EXCEPT !.op = op, !.user = user_id, !.pid = project_id,
                     !.repo = repository_id]

\* the service returns (or raises) and the session is closed
Answer(s, req, result) ==
    /\ sess' = [sess EXCEPT ![s] = IdleSlot]
    /\ last' = [op |-> req.op, user |-> req.user, pid |-> req.pid, repo |-> req.repo,
                result |-> result, installation |-> req.installation,
                row |-> req.row, github_id |-> req.github_id]

\* the request goes on to its next database round trip
Continue(s, req, pc) ==
    /\ sess' = [sess EXCEPT ![s] = [req EXCEPT !.pc = pc]]
    /\ UNCHANGED last

\* db.query(Repository).filter(id == repository_id, user_id == user_id).first()
FindRepository(repository_id, user_id) ==
    IF repository_id \in DOMAIN repositories
       /\ repositories[repository_id].user_id = user_id
    THEN repository_id ELSE None

\* mutant: the existence check counts deployed projects only
ExistingProjectFor_DeployedOnly(repository_id) ==
    \E p \in DOMAIN projects :
        projects[p].repository_id = repository_id /\ projects[p].status = "deployed"

\* db.query(Project).filter(Project.repository_id == repository_id).first()
ExistingProjectFor(repository_id) ==
    \E p \in DOMAIN projects : projects[p].repository_id = repository_id

\* mutant: the query filters on the slug alone
SlugExists_AnyUser(slug, user_id) ==
    \E p \in DOMAIN projects : projects[p].slug = slug

\* db.query(model).filter(model.slug == slug, model.user_id == user_id).first()
SlugExists(slug, user_id) ==
    \E p \in DOMAIN projects :
        projects[p].slug = slug /\ projects[p].user_id = user_id

\* mutant: the lookup filters on the id alone
GetProject_ById(project_id, user_id) ==
    IF project_id \in DOMAIN projects THEN project_id ELSE NoProject

\* db.query(Project).filter(id == project_id, user_id == user_id).first()
GetProject(project_id, user_id) ==
    IF project_id \in DOMAIN projects /\ projects[project_id].user_id = user_id
    THEN project_id ELSE NoProject

AccessDenied == Raise("ValueError", "Repository not found or access denied")
AlreadyExists == Raise("ValueError", "Project already exists for this repository")

Creating == {s \in Sessions : sess[s].op = "create"}

(***************************************************************************)
(* ProjectService.create_project, one action per database round trip       *)
(***************************************************************************)
\* mutant: the existing-project check runs before the ownership check
CreateCheckRepository_ExistingFirst(s, user_id, repository_id, name) ==
    /\ FirstFree(s)
    /\ nextId + Cardinality(Creating) <= MaxProjects
    /\ LET req == [Request("create", user_id, NoProject, repository_id)
                      EXCEPT !.name = name]
       IN  IF ExistingProjectFor(repository_id)
           THEN Answer(s, req, AlreadyExists)
           ELSE IF FindRepository(repository_id, user_id) = None
           THEN Answer(s, req, AccessDenied)
           ELSE Continue(s, [req EXCEPT !.probe = ProbeStart(slugify(name),
                                                            DefaultMaxLength)],
                         "create_probe")
    /\ UNCHANGED <<repositories, installations, users, delivery, settings, projects, nextId, now, dependents, gen>>

\* the request arrives and the repository is looked up (lines 56-66)
CreateCheckRepository(s, user_id, repository_id, name) ==
    /\ FirstFree(s)
    /\ nextId + Cardinality(Creating) <= MaxProjects
    /\ LET req == [Request("create", user_id, NoProject, repository_id)
                      EXCEPT !.name = name]
       IN  IF FindRepository(repository_id, user_id) = None
           THEN Answer(s, req, AccessDenied)
           ELSE Continue(s, req, "create_existing")
    /\ UNCHANGED <<repositories, installations, users, delivery, settings, projects, nextId, now, dependents, gen>>

\* the existing-project check, then slugify and the start of the probing (lines 68-80)
CreateCheckExisting(s) ==
    /\ sess[s].pc = "create_existing"
    /\ IF ExistingProjectFor(sess[s].repo)
       THEN Answer(s, sess[s], AlreadyExists)
       ELSE Continue(s, [sess[s] EXCEPT !.probe = ProbeStart(slugify(sess[s].name),
                                                            DefaultMaxLength)],
                     "create_probe")
    /\ UNCHANGED <<repositories, installations, users, delivery, settings, projects, nextId, now, dependents, gen>>

\* one iteration of the loop of generate_unique_slug
CreateProbe(s) ==
    /\ sess[s].pc = "create_probe"
    /\ \E u \in UuidPrefixes :
         LET r == ProbeStep(sess[s].probe,
                            SlugExists(sess[s].probe.slug, sess[s].user),
                            DefaultMaxLength, u)
         IN  IF r.done
             THEN Continue(s, [sess[s] EXCEPT !.probe = [r.st EXCEPT !.slug = r.value]],
                           "create_insert")
             ELSE Continue(s, [sess[s] EXCEPT !.probe = r.st], "create_probe")
    /\ UNCHANGED <<repositories, installations, users, delivery, settings, projects, nextId, now, dependents, gen>>

\* db.add(project); db.commit(); db.refresh(project) (lines 82-107)
CreateInsert(s) ==
    /\ sess[s].pc = "create_insert"
    /\ nextId <= MaxProjects
    /\ projects' = [p \in DOMAIN projects \cup {nextId} |->
                      IF p = nextId
                      THEN ServerDefaults(
                               NewProject(sess[s].user, sess[s].repo, sess[s].name,
                                          sess[s].probe.slug, repositories[sess[s].repo]))
                      ELSE projects[p]]
    /\ nextId' = nextId + 1
    /\ Answer(s, sess[s], Instance(nextId))
    /\ UNCHANGED <<repositories, installations, users, delivery, settings, now, dependents, gen>>

(***************************************************************************)
(* ProjectService.delete_project                                           *)
(***************************************************************************)
\* get_project, and the early return False (lines 219-221)
DeleteLoad(s, user_id, project_id) ==
    /\ FirstFree(s)
    /\ LET req == Request("delete", user_id, project_id, None)
       IN  IF GetProject(project_id, user_id) = NoProject
           THEN Answer(s, req, ReturnFalse)
           ELSE Continue(s, req, "delete_commit")
    /\ UNCHANGED <<repositories, installations, users, delivery, settings, projects, nextId, now, dependents, gen>>

\* The tables whose rows reference a project (project_id, ON DELETE CASCADE).
\* The model keeps at most one row per table and project.
DependentTables == {"agent_sessions", "generated_files", "cloud_resources"}

\* an agent, a generator or a provisioner records a row for an existing project
\* (the foreign key refuses a project_id that is not in projects)
AddDependent(table, project_id) ==
    /\ \A s \in Sessions : Free(s)
    /\ project_id \in DOMAIN projects
    /\ [table |-> table, project_id |-> project_id] \notin dependents
    /\ dependents' = dependents \cup {[table |-> table, project_id |-> project_id]}
    /\ UNCHANGED <<repositories, installations, users, delivery, settings, projects, nextId, sess, last, now, gen>>

\* mutant: only the agent sessions go with the project
Cascade_SessionsOnly(project_id) ==
    {d \in dependents : d.project_id # project_id \/ d.table # "agent_sessions"}

\* cascade="all, delete-orphan" of Project.agent_sessions, generated_files and
\* cloud_resources: the rows left once the project's own are deleted
Cascade(project_id) ==
    {d \in dependents : d.project_id # project_id}

\* db.delete(project); db.commit() (lines 224-228)
DeleteCommit(s) ==
    /\ sess[s].pc = "delete_commit"
    /\ projects' = [p \in DOMAIN projects \ {sess[s].pid} |-> projects[p]]
    /\ dependents' = Cascade(sess[s].pid)
    /\ Answer(s, sess[s], ReturnTrue)
    /\ UNCHANGED <<repositories, installations, users, delivery, settings, nextId, now, gen>>

(***************************************************************************)
(* The unit of work of a session: the attributes set on a loaded object    *)
(* to a value other than the loaded one are pending, and the commit writes *)
(* exactly those columns with UPDATE ... WHERE id = :id.                   *)
(***************************************************************************)
ProjectColumns ==
    {"user_id", "repository_id", "name", "slug", "status", "framework",
     "current_agent", "workflow_phase", "agent_coordination_data",
     "deployment_status", "updated_at"}

Pending(loaded, new) ==
    [f \in {g \in ProjectColumns : new[g] # loaded[g]} |-> new[f]]

\* the UPDATE of the pending columns; onupdate=func.now() sets updated_at in
\* every UPDATE that does not set it itself, and no pending column means no UPDATE
Flush(current, writes) ==
    [f \in ProjectColumns |->
        IF f \in DOMAIN writes THEN writes[f]
        ELSE IF f = "updated_at" /\ DOMAIN writes # {} THEN now
        ELSE current[f]]

StaleData == Raise("StaleDataError", "UPDATE statement expected to update 1 row(s); 0 were matched")
RefreshFailed == Raise("InvalidRequestError", "Could not refresh instance")

(***************************************************************************)
(* ProjectService.get_project and get_workflow_status: one query each      *)
(***************************************************************************)
GetRequest(s, user_id, project_id) ==
    /\ FirstFree(s)
    /\ LET found == GetProject(project_id, user_id)
           req == Request("get", user_id, project_id, None)
       IN  IF found = NoProject
           THEN Answer(s, req, ReturnNone)
           ELSE Answer(s, req, Instance(found))
    /\ UNCHANGED <<repositories, installations, users, delivery, settings, projects, nextId, now, dependents, gen>>

WorkflowStatusRequest(s, user_id, project_id) ==
    /\ FirstFree(s)
    /\ LET found == GetProject(project_id, user_id)
           req == Request("workflow_status", user_id, project_id, None)
       IN  IF found = NoProject
           THEN Answer(s, req, ReturnNone)
           ELSE Answer(s, req, ReturnDict(found))
    /\ UNCHANGED <<repositories, installations, users, delivery, settings, projects, nextId, now, dependents, gen>>

(***************************************************************************)
(* ProjectService.update_project                                           *)
(***************************************************************************)
\* mutant: status is not among the fields the loop may set
ApplyPatch_NotStatus(project, updates) ==
    [f \in ProjectColumns |->
        IF f \in DOMAIN updates /\ f # "status" THEN updates[f] ELSE project[f]]

\* for field, value in updates.items(): if hasattr(...): setattr(...)
ApplyPatch(project, updates) ==
    [f \in ProjectColumns |->
        IF f \in DOMAIN updates THEN updates[f] ELSE project[f]]

\* get_project, the early return None, the setattr loop (lines 187-194)
UpdateLoad(s, user_id, project_id, updates) ==
    /\ FirstFree(s)
    /\ LET found == GetProject(project_id, user_id)
           req == Request("update", user_id, project_id, None)
       IN  IF found = NoProject
           THEN Answer(s, req, ReturnNone)
           ELSE Continue(s, [req EXCEPT !.updates = updates,
                                        !.writes =
                                Pending(projects[found],
                                        ApplyPatch(projects[found], updates))],
                         "update_commit")
    /\ UNCHANGED <<repositories, installations, users, delivery, settings, projects, nextId, now, dependents, gen>>

\* the fields of the request schema of the update endpoint
UpdateRequestFields ==
    {"name", "description", "build_command", "start_command", "install_command",
     "environment_variables", "cloud_provider", "cloud_region"}

\* mutant: the schema lets the keys it does not declare through
RequestDict_AllowExtra(body) == body

\* ProjectUpdateRequest parsed from the JSON body (keys that are no field of
\* the schema are ignored), then request.dict(exclude_unset=True)
RequestDict(body) ==
    [f \in DOMAIN body \cap UpdateRequestFields |-> body[f]]

\* PUT /api/projects/{project_id}: the body goes through the schema and what
\* is left of it is the patch handed to ProjectService.update_project
UpdateEndpoint(s, user_id, project_id, body) ==
    /\ FirstFree(s)
    /\ LET updates == RequestDict(body)
           found == GetProject(project_id, user_id)
           req == [Request("update", user_id, project_id, None) EXCEPT !.body = body]
       IN  IF found = NoProject
           THEN Answer(s, req, ReturnNone)
           ELSE Continue(s, [req EXCEPT !.updates = updates,
                                        !.writes =
                                Pending(projects[found],
                                        ApplyPatch(projects[found], updates))],
                         "update_commit")
    /\ UNCHANGED <<repositories, installations, users, delivery, settings, projects, nextId, now, dependents, gen>>

\* db.commit(); db.refresh(project) (lines 196-200)
UpdateCommit(s) ==
    /\ sess[s].pc = "update_commit"
    /\ LET id == sess[s].pid
       IN  IF id \notin DOMAIN projects
           THEN /\ Answer(s, sess[s],
                          IF DOMAIN sess[s].writes # {} THEN StaleData ELSE RefreshFailed)
                /\ UNCHANGED projects
           ELSE /\ projects' = [projects EXCEPT ![id] = Flush(projects[id], sess[s].writes)]
                /\ Answer(s, sess[s], Instance(id))
    /\ UNCHANGED <<repositories, installations, users, delivery, settings, nextId, now, dependents, gen>>

(***************************************************************************)
(* ProjectService.start_workflow                                           *)
(***************************************************************************)
\* mutant: the start also moves the deployment status
Started_TouchesDeployment(project, workflow_config) ==
    [project EXCEPT
        !.status = "analyzing",
        !.current_agent = "repository_analyzer",
        !.workflow_phase = "analysis",
        !.deployment_status = "planning",
        !.agent_coordination_data =
            [workflow_started |-> TRUE,
             workflow_config |-> workflow_config,
             phase_history |-> <<"analysis">>]]

\* the assignments of lines 265-272
Started(project, workflow_config) ==
    [project EXCEPT
        !.status = "analyzing",
        !.current_agent = "repository_analyzer",
        !.workflow_phase = "analysis",
        !.agent_coordination_data =
            [workflow_started |-> TRUE,
             workflow_config |-> workflow_config,
             phase_history |-> <<"analysis">>]]

\* mutant: PLANNING is missing from the list
AlreadyRunning_NoPlanning(project) ==
    project.status \in {"analyzing", "generating", "deploying"}

\* mutant: finished projects are refused as well
AlreadyRunning_TerminalToo(project) ==
    project.status \in InFlightStatuses \cup {"deployed", "failed"}

\* the statuses for which start_workflow refuses (lines 255-262)
AlreadyRunning(project) == project.status \in InFlightStatuses

\* get_project, the two early returns False, the assignments (lines 250-272)
StartLoad(s, user_id, project_id, workflow_config) ==
    /\ FirstFree(s)
    /\ LET found == GetProject(project_id, user_id)
           req == [Request("start_workflow", user_id, project_id, None)
                      EXCEPT !.config = workflow_config]
       IN  IF found = NoProject
           THEN Answer(s, req, ReturnFalse)
           ELSE IF AlreadyRunning(projects[found])
           THEN Answer(s, req, ReturnFalse)
           ELSE Continue(s, [req EXCEPT !.writes =
                                Pending(projects[found],
                                        Started(projects[found], workflow_config))],
                         "start_commit")
    /\ UNCHANGED <<repositories, installations, users, delivery, settings, projects, nextId, now, dependents, gen>>

\* db.commit() and return True (lines 274-280)
StartCommit(s) ==
    /\ sess[s].pc = "start_commit"
    /\ LET id == sess[s].pid
       IN  IF id \notin DOMAIN projects
           THEN /\ Answer(s, sess[s], StaleData)
                /\ UNCHANGED projects
           ELSE /\ projects' = [projects EXCEPT ![id] = Flush(projects[id], sess[s].writes)]
                /\ Answer(s, sess[s], ReturnTrue)
    /\ UNCHANGED <<repositories, installations, users, delivery, settings, nextId, now, dependents, gen>>

(***************************************************************************)
(* generate_unique_slug called on its own, twice with the same arguments,  *)
(* the slug of the first call being stored (as create_project stores it)   *)
(* before the second call. Nothing else runs meanwhile, and a step of the  *)
(* model is a run of iterations of the loop.                               *)
(***************************************************************************)
\* up to `fuel` iterations of the loop of generate_unique_slug: whether it
\* returned and what, the loop variables, the number of existence queries made
\* so far and the candidates built so far
RECURSIVE RunProbes(_, _, _, _, _, _, _)
RunProbes(st, user_id, max_length, u, probes, built, fuel) ==
    LET existing == SlugExists(st.slug, user_id)
        r == ProbeStep(st, existing, max_length, u)
        candidates == IF r.st.counter > st.counter
                      THEN Append(built, r.st.slug) ELSE built
    IN  IF r.done \/ fuel = 1
        THEN [done |-> r.done, value |-> r.value, st |-> r.st,
              probes |-> probes + 1, built |-> candidates]
        ELSE RunProbes(r.st, user_id, max_length, u, probes + 1, candidates,
                       fuel - 1)

\* generate_unique_slug(db, Project, base_slug, user_id, max_length) is entered
GenCall ==
    /\ gen.pc \in {"call", "stored"}
    /\ gen' = [gen EXCEPT !.pc = "probe",
                          !.st = ProbeStart(gen.base_slug, gen.max_length),
                          !.probes = 0,
                          !.built = <<>>,
                          !.calls = gen.calls + 1]
    /\ UNCHANGED <<repositories, installations, users, delivery, settings, projects, nextId, sess, last, now, dependents>>

\* the next iterations of the loop, ProbesPerStep of them at most; u is what
\* str(uuid.uuid4())[:8] gives if it is drawn
GenProbe ==
    /\ gen.pc = "probe"
    /\ \E u \in UuidPrefixes :
         LET r == RunProbes(gen.st, gen.user, gen.max_length, u, gen.probes,
                            gen.built, ProbesPerStep)
         IN  gen' = [gen EXCEPT !.pc = IF r.done THEN "done" ELSE "probe",
                                !.st = r.st,
                                !.probes = r.probes,
                                !.built = r.built,
                                !.value = r.value]
    /\ UNCHANGED <<repositories, installations, users, delivery, settings, projects, nextId, sess, last, now, dependents>>

\* the slug the first call returned is inserted as a project of the user
GenStore ==
    /\ gen.pc = "done"
    /\ gen.calls = 1
    /\ projects' = [p \in DOMAIN projects \cup {nextId} |->
                      IF p = nextId
                      THEN ServerDefaults(NewProject(gen.user, nextId, gen.base_slug,
                                                     gen.value, repositories[nextId]))
                      ELSE projects[p]]
    /\ nextId' = nextId + 1
    /\ gen' = [gen EXCEPT !.pc = "stored", !.first = gen.value,
                          !.firstCounter = gen.st.counter]
    /\ UNCHANGED <<repositories, installations, users, delivery, settings, sess, last, now, dependents>>

(***************************************************************************)
(* slugify called on its own, and again on its result                      *)
(***************************************************************************)
Slugify ==
    /\ gen.pc = "text"
    /\ gen' = [gen EXCEPT !.pc = "slug", !.slug = slugify(gen.text)]
    /\ UNCHANGED <<repositories, installations, users, delivery, settings, projects, nextId, sess, last, now, dependents>>

SlugifyAgain ==
    /\ gen.pc = "slug"
    /\ gen' = [gen EXCEPT !.pc = "slug2", !.again = slugify(gen.slug)]
    /\ UNCHANGED <<repositories, installations, users, delivery, settings, projects, nextId, sess, last, now, dependents>>

(***************************************************************************)
(* ProjectService.list_user_projects: the count query, then the page query *)
(***************************************************************************)
\* the ids of the projects of a user
OwnedBy(user_id) == {p \in DOMAIN projects : projects[p].user_id = user_id}

\* mutant: oldest first
OrderByUpdated_Ascending(ids) ==
    {o \in [1..Cardinality(ids) -> ids] :
        /\ \A i, j \in DOMAIN o : i # j => o[i] # o[j]
        /\ \A i, j \in DOMAIN o :
             i < j => projects[o[i]].updated_at <= projects[o[j]].updated_at}

\* .order_by(desc(Project.updated_at)): every order the database may give,
\* rows of equal updated_at coming in any order
OrderByUpdated(ids) ==
    {o \in [1..Cardinality(ids) -> ids] :
        /\ \A i, j \in DOMAIN o : i # j => o[i] # o[j]
        /\ \A i, j \in DOMAIN o :
             i < j => projects[o[i]].updated_at >= projects[o[j]].updated_at}

\* .offset(skip).limit(limit)
OffsetLimit(rows, skip, limit) ==
    [i \in 1..Max(0, Min(limit, Len(rows) - skip)) |-> rows[skip + i]]

NegativeWindow == Raise("DataError", "OFFSET / LIMIT must not be negative")

\* the request arrives and the total is counted (line 130)
ListCount(s, user_id, skip, limit) ==
    /\ FirstFree(s)
    /\ LET req == Request("list", user_id, NoProject, None)
       IN  Continue(s, [req EXCEPT !.window =
                           [skip |-> skip, limit |-> limit,
                            total |-> Cardinality(OwnedBy(user_id))]],
                    "list_page")
    /\ UNCHANGED <<repositories, installations, users, delivery, settings, projects, nextId, now, dependents, gen>>

\* the page query and the return (lines 133-142)
ListPage(s) ==
    /\ sess[s].pc = "list_page"
    /\ LET w == sess[s].window
       IN  IF w.skip < 0 \/ w.limit < 0
           THEN Answer(s, sess[s], NegativeWindow)
           ELSE \E rows \in OrderByUpdated(OwnedBy(sess[s].user)) :
                    Answer(s, sess[s],
                           ReturnTuple(OffsetLimit(rows, w.skip, w.limit), w.total))
    /\ UNCHANGED <<repositories, installations, users, delivery, settings, projects, nextId, now, dependents, gen>>

\* func.now() moves on
Tick ==
    /\ now < MaxClock
    /\ now' = now + 1
    /\ UNCHANGED <<repositories, installations, users, delivery, settings, projects, nextId, sess, last, dependents, gen>>

(***************************************************************************)
(* routers/projects.py: the HTTP response for what the service gave back   *)
(***************************************************************************)
Http(status_code, detail) == [status_code |-> status_code, detail |-> detail]

Respond(op, result) ==
    IF op = "create" THEN
        IF result.kind = "Project" THEN Http(200, "ProjectResponse")
        ELSE IF result.kind = "ValueError" THEN Http(400, result.detail)
        ELSE Http(500, "Failed to create project")
    ELSE IF op = "get" THEN
        IF result.kind = "Project" THEN Http(200, "ProjectResponse")
        ELSE IF result.kind = "None" THEN Http(404, "Project not found")
        ELSE Http(500, "Failed to fetch project")
    ELSE IF op = "update" THEN
        IF result.kind = "Project" THEN Http(200, "ProjectResponse")
        ELSE IF result.kind = "None" THEN Http(404, "Project not found")
        ELSE Http(500, "Failed to update project")
    ELSE IF op = "delete" THEN
        IF result.kind = "True" THEN Http(200, "Project deleted successfully")
        ELSE IF result.kind = "False" THEN Http(404, "Project not found")
        ELSE Http(500, "Failed to delete project")
    ELSE IF op = "start_workflow" THEN
        IF result.kind = "True" THEN Http(200, "Workflow started successfully")
        ELSE IF result.kind = "False"
             THEN Http(404, "Project not found or workflow already running")
        ELSE Http(500, "Failed to start workflow")
    ELSE IF op = "list" THEN
        IF result.kind = "tuple" THEN Http(200, "ProjectListResponse")
        ELSE Http(500, "Failed to fetch projects")
    ELSE
        IF result.kind = "dict" THEN Http(200, "status_info")
        ELSE IF result.kind = "None" THEN Http(404, "Project not found")
        ELSE Http(500, "Failed to fetch workflow status")

(***************************************************************************)
(* services/github_service.py: the installations of the GitHub App. A row  *)
(* of github_installations is kept as installation_id, user_id and         *)
(* is_active; rows are never removed.                                      *)
(***************************************************************************)
InstallationIds == {"101", "102"}

InstallationInstance(row) == [kind |-> "GitHubInstallation", detail |-> "", id |-> row]

\* get_installation_by_installation_id: the rows the filter lets through
ActiveByInstallationId(installation_id) ==
    {i \in DOMAIN installations :
        /\ installations[i].installation_id = installation_id
        /\ installations[i].is_active}

\* get_installation_by_user_id: the rows the filter lets through; .first()
\* returns one of them, the query having no ORDER BY
ActiveByUserId(user_id) ==
    {i \in DOMAIN installations :
        /\ installations[i].user_id = user_id
        /\ installations[i].is_active}

\* mutant: installation_id has no unique index
UniqueViolation_NoIndex(installation_id) == FALSE

\* the unique index on github_installations.installation_id refuses the row
UniqueViolation(installation_id) ==
    \E i \in DOMAIN installations : installations[i].installation_id = installation_id

\* str(existing_installation.user_id) == installation_data.user_id: a str
\* compared with the uuid.UUID object the schema holds is never equal
StrEqualsUuid(row_user_id, user_id) == FALSE

DifferentUser == Raise("ValueError", "Installation already exists for different user")
DuplicateKey == Raise("IntegrityError", "duplicate key value violates unique constraint")

\* create_installation, lines 21-31: the lookup by installation id
CreateInstallation(s, user_id, installation_id) ==
    /\ FirstFree(s)
    /\ LET found == ActiveByInstallationId(installation_id)
           req == [Request("create_installation", user_id, NoProject, None)
                      EXCEPT !.installation = installation_id]
       IN  IF found = {}
           THEN Continue(s, req, "installation_user")
           ELSE \E i \in found :
                   IF installations[i].user_id = user_id
                   THEN Answer(s, req, InstallationInstance(i))
                   ELSE Answer(s, req, DifferentUser)
    /\ UNCHANGED <<repositories, installations, users, delivery, settings, projects,
                   nextId, now, dependents, gen>>

\* lines 34-39: the lookup of the active installation of the user
InstallationOfUser(s) ==
    /\ sess[s].pc = "installation_user"
    /\ LET found == ActiveByUserId(sess[s].user)
       IN  IF found = {}
           THEN Continue(s, sess[s], "installation_insert")
           ELSE \E i \in found :
                   Continue(s, [sess[s] EXCEPT !.row = i], "installation_deactivate")
    /\ UNCHANGED <<repositories, installations, users, delivery, settings, projects,
                   nextId, now, dependents, gen>>

\* lines 39-40: is_active = False on the loaded row, and db.commit()
DeactivateOld(s) ==
    /\ sess[s].pc = "installation_deactivate"
    /\ installations' = [installations EXCEPT ![sess[s].row].is_active = FALSE]
    /\ Continue(s, sess[s], "installation_insert")
    /\ UNCHANGED <<repositories, users, delivery, settings, projects, nextId, now,
                   dependents, gen>>

\* lines 44-57: the INSERT and its commit; on IntegrityError the rollback
InsertInstallation(s) ==
    /\ sess[s].pc = "installation_insert"
    /\ IF UniqueViolation(sess[s].installation)
       THEN /\ Continue(s, sess[s], "installation_again")
            /\ UNCHANGED installations
       ELSE /\ installations' =
                  Append(installations,
                         [installation_id |-> sess[s].installation,
                          user_id |-> sess[s].user,
                          is_active |-> TRUE])
            /\ Answer(s, sess[s], InstallationInstance(Len(installations) + 1))
    /\ UNCHANGED <<repositories, users, delivery, settings, projects, nextId, now,
                   dependents, gen>>

\* lines 59-68: the second lookup by installation id, after the rollback
LookupAgain(s) ==
    /\ sess[s].pc = "installation_again"
    /\ LET found == ActiveByInstallationId(sess[s].installation)
           same == {i \in found : StrEqualsUuid(installations[i].user_id, sess[s].user)}
       IN  IF same # {}
           THEN \E i \in same : Answer(s, sess[s], InstallationInstance(i))
           ELSE Answer(s, sess[s], DuplicateKey)
    /\ UNCHANGED <<repositories, installations, users, delivery, settings, projects,
                   nextId, now, dependents, gen>>

\* delete_installation, lines 123-129: the row is looked up by primary key
DeleteInstallationLoad(s, id) ==
    /\ FirstFree(s)
    /\ LET req == [Request("delete_installation", None, NoProject, None)
                      EXCEPT !.row = id]
       IN  IF id \in DOMAIN installations
           THEN Continue(s, req, "installation_delete")
           ELSE Answer(s, req, ReturnFalse)
    /\ UNCHANGED <<repositories, installations, users, delivery, settings, projects,
                   nextId, now, dependents, gen>>

\* lines 131-133: is_active = False, db.commit(), return True
DeleteInstallationCommit(s) ==
    /\ sess[s].pc = "installation_delete"
    /\ installations' = [installations EXCEPT ![sess[s].row].is_active = FALSE]
    /\ Answer(s, sess[s], ReturnTrue)
    /\ UNCHANGED <<repositories, users, delivery, settings, projects, nextId, now,
                   dependents, gen>>

(***************************************************************************)
(* services/repository_service.py: importing and disconnecting             *)
(* repositories. GitHub decides whether the installation token may read    *)
(* the repository that is asked for; its answer is an input of the call.   *)
(***************************************************************************)
\* the repositories GitHub knows, by full name, and the id it reports for each
GitHubId == [full_name \in {"octo/app", "octo/lib"} |->
                IF full_name = "octo/app" THEN "7001" ELSE "7002"]

\* a Repository instance is returned; the request records which row it is
RepositoryInstance == [kind |-> "Repository", detail |-> "", id |-> NoProject]

NoInstallation ==
    Raise("ValueError",
          "No GitHub App installation found. Please connect your GitHub account.")
GitHubRefused == Raise("Exception", "Failed to get repository details: Not Found")
DuplicateRepository ==
    Raise("IntegrityError", "duplicate key value violates unique constraint")

\* get_repository_by_github_id / the query of create_repository: the filter
\* is on github_id alone
ByGitHubId(github_id) ==
    {r \in DOMAIN repositories : repositories[r].github_id = github_id}

\* get_repositories_by_user_id: the rows of the listing
RepositoriesByUserId(user_id) ==
    {r \in DOMAIN repositories :
        /\ repositories[r].user_id = user_id
        /\ repositories[r].is_connected}

\* Repository(...) as create_repository builds it
NewRepository(user_id, full_name, github_id) ==
    [user_id |-> user_id,
     github_id |-> github_id,
     full_name |-> full_name,
     language |-> <<"P","y","t","h","o","n">>,
     is_connected |-> TRUE]

\* import_github_repository, lines 140-149: the installation of the user is
\* looked up and GitHub is asked for the repository
ImportLoad(s, user_id, full_name, readable) ==
    /\ FirstFree(s)
    /\ LET req == Request("import", user_id, NoProject, None)
       IN  IF ActiveByUserId(user_id) = {}
           THEN Answer(s, req, NoInstallation)
           ELSE IF ~readable
           THEN Answer(s, req, GitHubRefused)
           ELSE Continue(s, [req EXCEPT !.github_id = GitHubId[full_name],
                                        !.full_name = full_name],
                         "import_find")
    /\ UNCHANGED <<repositories, installations, users, delivery, settings, projects,
                   nextId, now, dependents, gen>>

\* create_repository, lines 20-26: a row with the github_id is returned as it is
ImportFind(s) ==
    /\ sess[s].pc = "import_find"
    /\ LET found == ByGitHubId(sess[s].github_id)
       IN  IF found = {}
           THEN Continue(s, sess[s], "import_insert")
           ELSE \E r \in found :
                   Answer(s, [sess[s] EXCEPT !.repo = r], RepositoryInstance)
    /\ UNCHANGED <<repositories, installations, users, delivery, settings, projects,
                   nextId, now, dependents, gen>>

\* create_repository, lines 29-50: the INSERT, its commit and the refresh;
\* github_id has a unique index
ImportInsert(s) ==
    /\ sess[s].pc = "import_insert"
    /\ IF ByGitHubId(sess[s].github_id) # {}
       THEN /\ Answer(s, sess[s], DuplicateRepository)
            /\ UNCHANGED repositories
       ELSE LET r == CHOOSE q \in RepoIds \ DOMAIN repositories : TRUE
            IN  /\ repositories' =
                      [q \in DOMAIN repositories \cup {r} |->
                         IF q = r
                         THEN NewRepository(sess[s].user, sess[s].full_name,
                                            sess[s].github_id)
                         ELSE repositories[q]]
                /\ Answer(s, [sess[s] EXCEPT !.repo = r], RepositoryInstance)
    /\ UNCHANGED <<installations, users, delivery, settings, projects, nextId, now,
                   dependents, gen>>

Disconnected == [kind |-> "dict", detail |-> "disconnected successfully", id |-> NoProject]
RepositoryNotFound == [kind |-> "dict", detail |-> "Repository not found", id |-> NoProject]

\* delete_repository, lines 92-94: the row is looked up by primary key
DisconnectLoad(s, repository_id) ==
    /\ FirstFree(s)
    /\ LET req == Request("delete_repository", None, NoProject, repository_id)
       IN  IF repository_id \in DOMAIN repositories
           THEN Continue(s, req, "disconnect")
           ELSE Answer(s, req, RepositoryNotFound)
    /\ UNCHANGED <<repositories, installations, users, delivery, settings, projects,
                   nextId, now, dependents, gen>>

\* lines 96-102: is_connected = False and db.commit()
DisconnectCommit(s) ==
    /\ sess[s].pc = "disconnect"
    /\ repositories' = [repositories EXCEPT ![sess[s].repo].is_connected = FALSE]
    /\ Answer(s, sess[s], Disconnected)
    /\ UNCHANGED <<installations, users, delivery, settings, projects, nextId, now,
                   dependents, gen>>

(***************************************************************************)
(* The bodies of the responses. A text is kept as the sequence of the      *)
(* pieces it is put together from, so that a text built around str(e)      *)
(* holds the text of the exception as one of its pieces.                   *)
(***************************************************************************)
\* raise HTTPException(status_code, detail): FastAPI answers {"detail": detail}
HttpExceptionResponse(status_code, detail) ==
    [status_code |-> status_code, content |-> [detail |-> <<detail>>]]

\* routers/projects.py: what the client gets from a project endpoint
ProjectResponse(op, result) ==
    LET r == Respond(op, result)
    IN  IF r.status_code = 200
        THEN [status_code |-> 200, content |-> [data |-> <<r.detail>>]]
        ELSE HttpExceptionResponse(r.status_code, r.detail)

\* routers/github.py, import_repository: the JSONResponse of lines 547-576
ImportResponse(result) ==
    IF result.kind = "Repository"
    THEN [status_code |-> 200,
          content |-> [success |-> TRUE, data |-> <<"repository">>]]
    ELSE [status_code |-> 500,
          content |-> [success |-> FALSE,
                       error |-> <<"Failed to import repository: ", result.detail>>]]

\* main.py, global_exception_handler: the answer to an exception no handler caught
GlobalExceptionHandler(exc) ==
    [status_code |-> 500,
     content |-> [success |-> FALSE,
                  error |-> <<"Internal server error">>,
                  message |-> IF settings.DEBUG THEN <<exc.detail>>
                              ELSE <<"An unexpected error occurred">>]]

\* the response of the endpoint that serves the operation
EndpointResponse(op, result) ==
    IF op = "import" THEN ImportResponse(result) ELSE ProjectResponse(op, result)

(***************************************************************************)
(* routers/webhooks.py, handle_clerk_webhook: user records are kept from   *)
(* the events of the identity provider. A row of users is kept as          *)
(* clerk_user_id, email, full_name, first_name, last_name and is_active.   *)
(* Whether the signature of a delivery verifies is decided by the svix     *)
(* library and is an input of the handler.                                 *)
(***************************************************************************)
ClerkIds == {"c1", "c2"}
NoUserData == [none |-> TRUE]

\* the entries of email_addresses whose id is primary_email_address_id
PrimaryEmails(data) ==
    {i \in DOMAIN data.email_addresses :
        data.email_addresses[i].id = data.primary_email_address_id}

\* " ".join(parts) of the names that are set
FullName(first_name, last_name) ==
    IF first_name = None /\ last_name = None THEN <<>>
    ELSE (IF first_name # None THEN <<first_name>> ELSE <<>>)
            \o (IF last_name # None THEN <<last_name>> ELSE <<>>)

\* extract_user_data
ExtractUserData(event) ==
    IF event.data.id = None THEN NoUserData
    ELSE IF PrimaryEmails(event.data) = {} THEN NoUserData
    ELSE LET first == CHOOSE i \in PrimaryEmails(event.data) :
                         \A j \in PrimaryEmails(event.data) : i <= j
         IN  [id |-> event.data.id,
              email |-> event.data.email_addresses[first].email_address,
              full_name |-> FullName(event.data.first_name, event.data.last_name),
              first_name |-> event.data.first_name,
              last_name |-> event.data.last_name]

\* db.query(User).filter(User.clerk_user_id == id).first()
ByClerkId(clerk_user_id) ==
    {i \in DOMAIN users : users[i].clerk_user_id = clerk_user_id}

\* User(...) as the handler of user.created builds it
NewUser(user_data) ==
    [clerk_user_id |-> user_data.id,
     email |-> user_data.email,
     full_name |-> user_data.full_name,
     first_name |-> user_data.first_name,
     last_name |-> user_data.last_name,
     is_active |-> TRUE]

\* the assignments of the handler of user.updated (lines 152-158)
Overwritten(row, user_data) ==
    [row EXCEPT !.email = user_data.email,
                !.full_name = user_data.full_name,
                !.first_name = user_data.first_name,
                !.last_name = user_data.last_name]

\* the unique indexes on users.clerk_user_id and users.email refuse the table
UsersUnique(table) ==
    \A i, j \in DOMAIN table :
        i # j => /\ table[i].clerk_user_id # table[j].clerk_user_id
                 /\ table[i].email # table[j].email

Delivered(event, verified, status_code) ==
    [pc |-> "done", event |-> event, verified |-> verified, row |-> NoRow,
     status_code |-> status_code]

Pending204(pc, event, row) ==
    [pc |-> pc, event |-> event, verified |-> TRUE, row |-> row, status_code |-> 204]

\* lines 95-113, 144-149, 170-175: the signature is verified and the record
\* of the subject is looked up
ClerkReceive(event, verified) ==
    /\ delivery.pc \in {"none", "done"}
    /\ \A s \in Sessions : Free(s)
    /\ LET user_data == ExtractUserData(event)
           found == ByClerkId(event.data.id)
       IN  delivery' =
             IF ~verified THEN Delivered(event, FALSE, 400)
             ELSE IF event.type = "user.created"
             THEN IF user_data = NoUserData \/ found # {}
                  THEN Delivered(event, TRUE, 204)
                  ELSE Pending204("clerk_insert", event, NoRow)
             ELSE IF event.type = "user.updated"
             THEN IF user_data = NoUserData \/ found = {}
                  THEN Delivered(event, TRUE, 204)
                  ELSE Pending204("clerk_update", event, CHOOSE i \in found : TRUE)
             ELSE IF event.type = "user.deleted"
             THEN IF event.data.id = None \/ found = {}
                  THEN Delivered(event, TRUE, 204)
                  ELSE Pending204("clerk_deactivate", event, CHOOSE i \in found : TRUE)
             ELSE Delivered(event, TRUE, 204)
    /\ UNCHANGED <<repositories, installations, users, settings, projects, nextId,
                   sess, last, now, dependents, gen>>

\* the commit of the new record, of the overwritten record or of the
\* deactivation (lines 133-135, 160, 178-179); an IntegrityError is caught by
\* the handler and answered with 500
ClerkCommit ==
    /\ delivery.pc \in {"clerk_insert", "clerk_update", "clerk_deactivate"}
    /\ LET user_data == ExtractUserData(delivery.event)
           table == IF delivery.pc = "clerk_insert"
                    THEN Append(users, NewUser(user_data))
                    ELSE IF delivery.pc = "clerk_update"
                    THEN [users EXCEPT ![delivery.row] = Overwritten(@, user_data)]
                    ELSE [users EXCEPT ![delivery.row].is_active = FALSE]
       IN  IF UsersUnique(table)
           THEN /\ users' = table
                /\ delivery' = Delivered(delivery.event, TRUE, 204)
           ELSE /\ users' = users
                /\ delivery' = Delivered(delivery.event, TRUE, 500)
    /\ UNCHANGED <<repositories, installations, settings, projects, nextId, sess,
                   last, now, dependents, gen>>

\* routers/github.py, get_current_user_database_id: a caller with a valid
\* token and no record gets one, with the e-mail address of the token or a
\* made-up one
AutoCreate(clerk_user_id, email) ==
    /\ delivery.pc \in {"none", "done"}
    /\ ByClerkId(clerk_user_id) = {}
    /\ LET table == Append(users,
                           [clerk_user_id |-> clerk_user_id,
                            email |-> email,
                            full_name |-> <<>>,
                            first_name |-> None,
                            last_name |-> None,
                            is_active |-> TRUE])
       IN  users' = IF UsersUnique(table) THEN table ELSE users
    /\ UNCHANGED <<repositories, installations, delivery, settings, projects, nextId,
                   sess, last, now, dependents, gen>>

(***************************************************************************)
(* The two handlers of GitHub webhook deliveries: handle_github_webhook of *)
(* routers/webhooks.py (POST /api/webhooks/github) and                     *)
(* github_webhook_handler of routers/github.py (POST /api/github/webhook   *)
(* and /api/github/webhooks). Header values are sequences of characters.   *)
(***************************************************************************)
\* the request bodies of the deliveries
Payloads == {"installation created", "push", "not json"}

\* json.loads succeeds
ParsesAsJson(body) == body # "not json"

\* hmac.new(key, body, hashlib.sha256).hexdigest(): a digest for every key and
\* body, no two of them equal
Hmac(key, body) ==
    LET k == IF key = "secret" THEN <<"a">> ELSE <<"b">>
        b == IF body = "installation created" THEN <<"1">>
             ELSE IF body = "push" THEN <<"2">> ELSE <<"3">>
    IN  k \o b \o <<"f">>

Sha256Prefix == <<"s","h","a","2","5","6","=">>

\* the position of the first "=" of s, 0 if there is none
RECURSIVE FirstEquals(_, _)
FirstEquals(s, i) ==
    IF i > Len(s) THEN 0
    ELSE IF s[i] = "=" THEN i ELSE FirstEquals(s, i + 1)

IndexError == [raised |-> "IndexError"]

\* s.split("=")[1]
SplitSecond(s) ==
    LET i == FirstEquals(s, 1)
    IN  IF i = 0 THEN IndexError
        ELSE LET rest == SubSeq(s, i + 1, Len(s))
                 j == FirstEquals(rest, 1)
             IN  IF j = 0 THEN rest ELSE SubSeq(rest, 1, j - 1)

\* a header that was not sent, or sent empty, is falsy
Falsy(header) == header = <<>>

NoOutcome == [status_code |-> 0, verified |-> FALSE]
Outcome(status_code, verified) == [status_code |-> status_code, verified |-> verified]

\* routers/webhooks.py, handle_github_webhook (lines 212-273)
HandleGithubWebhookOutcome(d) ==
    IF Falsy(d.event) \/ Falsy(d.id) \/ Falsy(d.signature)
    THEN Outcome(400, FALSE)
    ELSE LET signature == SplitSecond(d.signature)
             expected_signature == Hmac(settings.GITHUB_WEBHOOK_SECRET, d.body)
         IN  IF signature = IndexError THEN Outcome(500, FALSE)
             ELSE IF signature # expected_signature THEN Outcome(401, FALSE)
             ELSE IF ~ParsesAsJson(d.body) THEN Outcome(400, TRUE)
             ELSE Outcome(204, TRUE)

\* routers/github.py, github_webhook_handler (lines 202-261); the
\* JSONDecodeError of json.loads is caught by no handler of the router
GithubWebhookHandlerOutcome(d) ==
    IF Falsy(d.signature)
    THEN Outcome(400, FALSE)
    ELSE LET expected_signature ==
                 Sha256Prefix \o Hmac(settings.GITHUB_WEBHOOK_SECRET, d.body)
         IN  IF d.signature # expected_signature THEN Outcome(400, FALSE)
             ELSE IF ~ParsesAsJson(d.body)
             THEN Outcome(GlobalExceptionHandler(
                              Raise("JSONDecodeError", "Expecting value")).status_code,
                          TRUE)
             ELSE Outcome(200, TRUE)

\* the delivery reaches POST /api/webhooks/github
HandleGithubWebhook ==
    /\ delivery.pc = "github"
    /\ delivery.first = NoOutcome
    /\ delivery' = [delivery EXCEPT !.first = HandleGithubWebhookOutcome(delivery)]
    /\ UNCHANGED <<repositories, installations, users, settings, projects, nextId,
                   sess, last, now, dependents, gen>>

\* the same delivery reaches POST /api/github/webhooks
GithubWebhookHandler ==
    /\ delivery.pc = "github"
    /\ delivery.second = NoOutcome
    /\ delivery' = [delivery EXCEPT !.second = GithubWebhookHandlerOutcome(delivery)]
    /\ UNCHANGED <<repositories, installations, users, settings, projects, nextId,
                   sess, last, now, dependents, gen>>

(***************************************************************************)
(* Specifications                                                          *)
(***************************************************************************)
\* no webhook delivery is under way
NoDelivery == [pc |-> "none"]

\* Settings() with the defaults of the fields and the secret of the deployment
Production == [DEBUG |-> FALSE, GITHUB_WEBHOOK_SECRET |-> "secret"]

\* no installation, no user record received from the identity provider
InitAccounts ==
    /\ installations = <<>>
    /\ users = <<>>
    /\ delivery = NoDelivery
    /\ settings = Production

Init ==
    /\ InitAccounts
    /\ repositories = [r \in {"r1", "r2"} |->
                         [user_id |-> "u1", language |-> <<"P","y","t","h","o","n">>]]
    /\ projects = <<>>
    /\ nextId = 1
    /\ sess = [s \in Sessions |-> IdleSlot]
    /\ last = NoRequest
    /\ now = 0
    /\ dependents = {}
    /\ gen = NoCall

Patches ==
    { << >>,
      [status |-> "deployed"],
      [status |-> "planning"],
      [user_id |-> "u2"],
      [nickname |-> "x"] }

Configs ==
    { [workflow_type |-> "full_deployment", cloud_provider |-> "gcp"],
      [workflow_type |-> "analysis_only"] }

CreateRequest(s, names) ==
    \E u \in Users, r \in RepoIds, n \in names : CreateCheckRepository(s, u, r, n)

DeleteRequest(s) ==
    \E u \in Users, p \in ProjectIds : DeleteLoad(s, u, p)

UpdateRequest(s) ==
    \E u \in Users, p \in ProjectIds, updates \in Patches : UpdateLoad(s, u, p, updates)

StartRequest(s) ==
    \E u \in Users, p \in ProjectIds, c \in Configs : StartLoad(s, u, p, c)

ReadRequest(s) ==
    \E u \in Users, p \in ProjectIds :
        GetRequest(s, u, p) \/ WorkflowStatusRequest(s, u, p)

\* Every operation of the service, the requests answered one after the other.
Next ==
    \/ CreateRequest(1, OneName)
    \/ CreateCheckExisting(1)
    \/ CreateProbe(1)
    \/ CreateInsert(1)
    \/ DeleteRequest(1)
    \/ DeleteCommit(1)
    \/ UpdateRequest(1)
    \/ UpdateCommit(1)
    \/ StartRequest(1)
    \/ StartCommit(1)
    \/ ReadRequest(1)

Spec == Init /\ [][Next]_vars

\* create_project and delete_project requests, two of them in flight at a time,
\* interleaved at their database round trips.
NextCD ==
    \E s \in Sessions :
        \/ CreateRequest(s, Names)
        \/ CreateCheckExisting(s)
        \/ CreateProbe(s)
        \/ CreateInsert(s)
        \/ DeleteRequest(s)
        \/ DeleteCommit(s)

SpecCD == Init /\ [][NextCD]_vars

Skips == {-1, 0, 1, 2}
Limits == {-1, 0, 1, 50}

ListRequest(s) ==
    \E u \in Users, skip \in Skips, limit \in Limits : ListCount(s, u, skip, limit)

\* create, update, delete and list requests answered one after the other,
\* while the clock of the database runs.
NextList ==
    \/ CreateRequest(1, OneName)
    \/ CreateCheckExisting(1)
    \/ CreateProbe(1)
    \/ CreateInsert(1)
    \/ UpdateRequest(1)
    \/ UpdateCommit(1)
    \/ DeleteRequest(1)
    \/ DeleteCommit(1)
    \/ ListRequest(1)
    \/ ListPage(1)
    \/ Tick

SpecList == Init /\ [][NextList]_vars

\* the arguments of the direct calls of generate_unique_slug
BaseSlugs == { <<"d","e","m","o">>,
               <<"d","e","m","o","d","e","m","o","d","e","m","o","d">> }
MaxLengths == {50, 12, 6, 1}

\* which candidates (0: the base, k: the one with suffix -k) the caller's
\* projects hold, and which the projects of the other user hold
TakenLists == { <<>>, <<0>>, <<0, 1>>, <<0, 2>>, [i \in 1..11 |-> i - 1] }
OtherLists == { <<>>, <<0, 1, 2>> }

\* every candidate the loop can probe is held by the caller
AllTaken == [i \in 1..MaxCounter |-> i - 1]

SlugInputs ==
    [base_slug : BaseSlugs, max_length : MaxLengths,
     taken : TakenLists, others : OtherLists]
    \cup { [base_slug |-> <<"d","e","m","o">>, max_length |-> DefaultMaxLength,
             taken |-> AllTaken, others |-> <<>>],
           [base_slug |-> <<"d","e","m","o","d","e","m","o","d","e","m","o","d">>,
             max_length |-> 6, taken |-> AllTaken, others |-> <<>>] }

CandidateAt(base_slug, max_length, k) ==
    LET base == ProbeStart(base_slug, max_length).base
    IN  IF k = 0 THEN base ELSE NextCandidate(base, k, max_length)

\* repository k belongs to the owner of project k; one more repository of the
\* caller has no project yet
SlugRepositories(taken, others) ==
    [r \in 1..(Len(taken) + Len(others) + 1) |->
        [user_id |-> IF r \in (Len(taken) + 1)..(Len(taken) + Len(others))
                     THEN "u2" ELSE "u1",
         language |-> <<>>]]

SlugTable(base_slug, max_length, taken, others) ==
    [p \in 1..(Len(taken) + Len(others)) |->
        LET owner == IF p <= Len(taken) THEN "u1" ELSE "u2"
            k == IF p <= Len(taken) THEN taken[p] ELSE others[p - Len(taken)]
        IN  ServerDefaults(
                NewProject(owner, p, base_slug,
                           CandidateAt(base_slug, max_length, k),
                           SlugRepositories(taken, others)[p]))]

InitSlug ==
    /\ InitAccounts
    /\ sess = [s \in Sessions |-> IdleSlot]
    /\ last = NoRequest
    /\ now = 0
    /\ dependents = {}
    /\ \E input \in SlugInputs :
         /\ repositories = SlugRepositories(input.taken, input.others)
         /\ projects = SlugTable(input.base_slug, input.max_length, input.taken, input.others)
         /\ nextId = Len(input.taken) + Len(input.others) + 1
         /\ gen = [pc |-> "call", base_slug |-> input.base_slug, user |-> "u1",
                   max_length |-> input.max_length, st |-> NoProbe, probes |-> 0,
                   built |-> <<>>, value |-> <<>>, calls |-> 0, first |-> <<>>, firstCounter |-> 0]

NextSlug == GenCall \/ GenProbe \/ GenStore

SpecSlug == InitSlug /\ [][NextSlug]_vars

\* the texts slugify is called with: every string of at most MaxTextLen
\* characters over a letter in each case, a digit, the separators and two
\* punctuation marks
TextChars == {"A", "b", "1", " ", "_", "-", "!", "."}
Texts == UNION {[1..n -> TextChars] : n \in 0..MaxTextLen}

InitSlugify ==
    /\ InitAccounts
    /\ repositories = [r \in {"r1", "r2"} |->
                         [user_id |-> "u1", language |-> <<"P","y","t","h","o","n">>]]
    /\ projects = <<>>
    /\ nextId = 1
    /\ sess = [s \in Sessions |-> IdleSlot]
    /\ last = NoRequest
    /\ now = 0
    /\ dependents = {}
    /\ \E text \in Texts :
         gen = [pc |-> "text", text |-> text, slug |-> <<>>, again |-> <<>>]

NextSlugify == Slugify \/ SlugifyAgain

SpecSlugify == InitSlugify /\ [][NextSlugify]_vars

DependentRow ==
    \E table \in DependentTables, p \in ProjectIds : AddDependent(table, p)

\* create, get and delete requests answered one after the other, while rows
\* that reference the projects are recorded.
NextDel ==
    \/ CreateRequest(1, OneName)
    \/ CreateCheckExisting(1)
    \/ CreateProbe(1)
    \/ CreateInsert(1)
    \/ DeleteRequest(1)
    \/ DeleteCommit(1)
    \/ ReadRequest(1)
    \/ DependentRow

SpecDel == Init /\ [][NextDel]_vars

\* the patches by which a workflow that was started is recorded as over
Finished == { [status |-> "deployed"], [status |-> "failed"] }

FinishRequest(s) ==
    \E u \in Users, p \in ProjectIds, updates \in Finished : UpdateLoad(s, u, p, updates)

\* start_workflow requests, two of them in flight at a time and interleaved at
\* their database round trips, for projects that were created and whose
\* workflow is recorded as over through update_project.
NextStart ==
    \E s \in Sessions :
        \/ CreateRequest(s, OneName)
        \/ CreateCheckExisting(s)
        \/ CreateProbe(s)
        \/ CreateInsert(s)
        \/ StartRequest(s)
        \/ StartCommit(s)
        \/ FinishRequest(s)
        \/ UpdateCommit(s)

SpecStart == Init /\ [][NextStart]_vars

\* JSON bodies sent to the update endpoint; every value satisfies the
\* constraints of its field
Bodies ==
    { [name |-> <<"n","e","w">>],
      [status |-> "initializing"],
      [status |-> "deployed"],
      [status |-> "failed", name |-> <<"n","e","w">>] }

\* direct calls of ProjectService.update_project that name the status
StatusPatches == { [status |-> v] : v \in ProjectStatuses }

EndpointRequest(s) ==
    \E u \in Users, p \in ProjectIds, body \in Bodies : UpdateEndpoint(s, u, p, body)

StatusRequest(s) ==
    \E u \in Users, p \in ProjectIds, updates \in StatusPatches :
        UpdateLoad(s, u, p, updates)

OneStartRequest(s) ==
    \E u \in Users, p \in ProjectIds :
        StartLoad(s, u, p, [workflow_type |-> "analysis_only"])

\* one project is created; then it is updated through the endpoint, updated by
\* direct calls of the service, and its workflow is started.
NextUpdate ==
    \/ nextId = 1 /\ CreateRequest(1, OneName)
    \/ CreateCheckExisting(1)
    \/ CreateProbe(1)
    \/ CreateInsert(1)
    \/ EndpointRequest(1)
    \/ StatusRequest(1)
    \/ UpdateCommit(1)
    \/ OneStartRequest(1)
    \/ StartCommit(1)

SpecUpdate == Init /\ [][NextUpdate]_vars

CreateInstallationRequest(s) ==
    \E u \in Users, i \in InstallationIds : CreateInstallation(s, u, i)

DeleteInstallationRequest(s) ==
    \E id \in 1..Cardinality(InstallationIds) : DeleteInstallationLoad(s, id)

\* create_installation and delete_installation calls, two of them in flight
\* at a time and interleaved at their database round trips
NextInstallations ==
    \E s \in Sessions :
        \/ CreateInstallationRequest(s)
        \/ InstallationOfUser(s)
        \/ DeactivateOld(s)
        \/ InsertInstallation(s)
        \/ LookupAgain(s)
        \/ DeleteInstallationRequest(s)
        \/ DeleteInstallationCommit(s)

SpecInstallations == Init /\ [][NextInstallations]_vars

\* the same calls made one after the other
NextOneByOne ==
    \/ CreateInstallationRequest(1)
    \/ InstallationOfUser(1)
    \/ DeactivateOld(1)
    \/ InsertInstallation(1)
    \/ LookupAgain(1)
    \/ DeleteInstallationRequest(1)
    \/ DeleteInstallationCommit(1)

SpecOneByOne == Init /\ [][NextOneByOne]_vars

DebugSettings == { Production, [Production EXCEPT !.DEBUG = TRUE] }

\* both users have connected an installation and nothing is imported yet
InitImport ==
    /\ installations = << [installation_id |-> "101", user_id |-> "u1", is_active |-> TRUE],
                          [installation_id |-> "102", user_id |-> "u2", is_active |-> TRUE] >>
    /\ users = <<>>
    /\ delivery = NoDelivery
    /\ settings \in DebugSettings
    /\ repositories = <<>>
    /\ projects = <<>>
    /\ nextId = 1
    /\ sess = [s \in Sessions |-> IdleSlot]
    /\ last = NoRequest
    /\ now = 0
    /\ dependents = {}
    /\ gen = NoCall

ImportRequest(s) ==
    \E u \in Users, full_name \in DOMAIN GitHubId, readable \in BOOLEAN :
        ImportLoad(s, u, full_name, readable)

DisconnectRequest(s) ==
    \E r \in RepoIds : DisconnectLoad(s, r)

\* repositories are imported and disconnected, installations are removed and
\* projects are created from the imported repositories, one request after
\* the other
NextImport ==
    \/ ImportRequest(1)
    \/ ImportFind(1)
    \/ ImportInsert(1)
    \/ DisconnectRequest(1)
    \/ DisconnectCommit(1)
    \/ DeleteInstallationRequest(1)
    \/ DeleteInstallationCommit(1)
    \/ CreateRequest(1, OneName)
    \/ CreateCheckExisting(1)
    \/ CreateProbe(1)
    \/ CreateInsert(1)

SpecImport == InitImport /\ [][NextImport]_vars

\* the payloads of the deliveries of the identity provider: two profiles of
\* each subject, and payloads without a subject id or a primary e-mail address
OneEmail == << [id |-> "e1", email_address |-> "a@example.com"] >>
TwoEmails == << [id |-> "e1", email_address |-> "a@example.com"],
                [id |-> "e2", email_address |-> "b@example.com"] >>

ClerkData ==
    { [id |-> "c1", email_addresses |-> OneEmail, primary_email_address_id |-> "e1",
       first_name |-> "Ann", last_name |-> "Lee"],
      [id |-> "c1", email_addresses |-> TwoEmails, primary_email_address_id |-> "e2",
       first_name |-> "Ann", last_name |-> None],
      [id |-> "c2", email_addresses |-> OneEmail, primary_email_address_id |-> "e1",
       first_name |-> None, last_name |-> "Lee"],
      [id |-> "c2", email_addresses |-> TwoEmails, primary_email_address_id |-> "e2",
       first_name |-> None, last_name |-> None],
      [id |-> "c1", email_addresses |-> <<>>, primary_email_address_id |-> "e1",
       first_name |-> "Ann", last_name |-> "Lee"],
      [id |-> "c1", email_addresses |-> OneEmail, primary_email_address_id |-> "e2",
       first_name |-> "Ann", last_name |-> "Lee"],
      [id |-> None, email_addresses |-> OneEmail, primary_email_address_id |-> "e1",
       first_name |-> "Ann", last_name |-> "Lee"] }

ClerkEvents ==
    [type : {"user.created", "user.updated", "user.deleted", "session.created"},
     data : ClerkData]

\* payload.get("email", f"{clerk_user_id}@unknown.com")
TokenEmail(clerk_user_id) ==
    IF clerk_user_id = "c1" THEN "c1@unknown.com" ELSE "c2@unknown.com"

ClerkDelivery ==
    \E event \in ClerkEvents, verified \in BOOLEAN : ClerkReceive(event, verified)

FirstRequest ==
    \E c \in ClerkIds :
        \E email \in {"a@example.com", TokenEmail(c)} : AutoCreate(c, email)

\* deliveries of the identity provider handled one after the other, and
\* first requests of users the table does not know yet
NextUsers ==
    \/ ClerkDelivery
    \/ ClerkCommit
    \/ FirstRequest

SpecUsers == Init /\ [][NextUsers]_vars

\* the values of X-Hub-Signature-256 sent with a body: none, the signature
\* GitHub computes, one computed with another secret, the digest under another
\* prefix, the bare digest, and the signature followed by "=" and more
Signatures(body) ==
    { <<>>,
      Sha256Prefix \o Hmac("secret", body),
      Sha256Prefix \o Hmac("guess", body),
      <<"s","h","a","1","=">> \o Hmac("secret", body),
      Hmac("secret", body),
      Sha256Prefix \o Hmac("secret", body) \o <<"=","x">> }

EventHeaders == { <<>>, <<"i","n","s","t","a","l","l","a","t","i","o","n">>,
                  <<"p","u","s","h">> }
DeliveryHeaders == { <<>>, <<"7","2","d","3">> }

InitWebhook ==
    /\ installations = <<>>
    /\ users = <<>>
    /\ settings \in DebugSettings
    /\ repositories = <<>>
    /\ projects = <<>>
    /\ nextId = 1
    /\ sess = [s \in Sessions |-> IdleSlot]
    /\ last = NoRequest
    /\ now = 0
    /\ dependents = {}
    /\ gen = NoCall
    /\ \E body \in Payloads, event \in EventHeaders, id \in DeliveryHeaders :
         \E signature \in Signatures(body) :
            delivery = [pc |-> "github", body |-> body, event |-> event, id |-> id,
                        signature |-> signature, first |-> NoOutcome,
                        second |-> NoOutcome]

NextWebhook == HandleGithubWebhook \/ GithubWebhookHandler

SpecWebhook == InitWebhook /\ [][NextWebhook]_vars

(***************************************************************************)
(* Properties                                                              *)
(***************************************************************************)
HasProject(repository_id) ==
    \E p \in DOMAIN projects : projects[p].repository_id = repository_id

NotOwned(project_id, user_id) ==
    project_id \notin DOMAIN projects \/ projects[project_id].user_id # user_id

Response(op, user_id, project_id, repository_id, result) ==
    [op |-> op, user |-> user_id, pid |-> project_id, repo |-> repository_id,
     result |-> result, installation |-> None, row |-> 0, github_id |-> None]

\* C1: no two projects owned by the same user have the same slug.
C1_UniqueSlugPerOwner ==
    \A p, q \in DOMAIN projects :
        (p # q /\ projects[p].user_id = projects[q].user_id)
            => projects[p].slug # projects[q].slug

\* C2: each repository is referenced by at most one project.
C2_OneProjectPerRepository ==
    \A p, q \in DOMAIN projects :
        p # q => projects[p].repository_id # projects[q].repository_id

\* C3: start_workflow returns False and changes nothing when the project is
\* missing, not the caller's, or analyzing, planning, generating or deploying;
\* otherwise it goes on, sets the status to analyzing and returns True, so the
\* second of two calls in a row is refused.
C3_RefusedStartChangesNothing ==
    [][ /\ \A s \in Sessions, u \in Users, p \in ProjectIds, c \in Configs :
             StartLoad(s, u, p, c) =>
                IF \/ NotOwned(p, u)
                   \/ projects[p].status \in {"analyzing", "planning",
                                              "generating", "deploying"}
                THEN /\ last' = Response("start_workflow", u, p, None,
                                         [kind |-> "False", detail |-> "", id |-> 0])
                     /\ projects' = projects
                     /\ sess' = sess
                ELSE /\ sess'[s].pc = "start_commit"
                     /\ projects' = projects
        /\ \A s \in Sessions :
             (StartCommit(s) /\ sess[s].pid \in DOMAIN projects) =>
                /\ projects'[sess[s].pid].status = "analyzing"
                /\ last'.result.kind = "True"
      ]_vars

C3_Witness ==
    /\ last.op = "start_workflow"
    /\ last.result.kind = "False"
    /\ last.pid \in DOMAIN projects
    /\ projects[last.pid].user_id = last.user
    /\ projects[last.pid].status = "analyzing"
    /\ projects[last.pid].current_agent = "repository_analyzer"

\* C4: a successful start_workflow sets status, current_agent, workflow_phase
\* and the coordination payload (the supplied config, phase history
\* ["analysis"]) of its project and changes no other field and no other project.
C4_StartFrame ==
    [][ /\ \A s \in Sessions, u \in Users, p \in ProjectIds, c \in Configs :
             (StartLoad(s, u, p, c) /\ sess'[s].pc = "start_commit") =>
                (sess'[s].pid = p /\ sess'[s].config = c)
        /\ \A s \in Sessions :
             (StartCommit(s) /\ sess[s].pid \in DOMAIN projects) =>
                /\ last'.result.kind = "True"
                /\ projects' =
                     [projects EXCEPT ![sess[s].pid] =
                        [@ EXCEPT !.status = "analyzing",
                                  !.current_agent = "repository_analyzer",
                                  !.workflow_phase = "analysis",
                                  !.agent_coordination_data =
                                      [workflow_started |-> TRUE,
                                       workflow_config |-> sess[s].config,
                                       phase_history |-> <<"analysis">>]]]
      ]_vars

C4_Witness ==
    /\ last.op = "start_workflow"
    /\ last.result.kind = "True"
    /\ Cardinality(DOMAIN projects) = 2
    /\ projects[last.pid].status = "analyzing"
    /\ projects[last.pid].deployment_status = "not_started"
    /\ projects[last.pid].agent_coordination_data.workflow_config \in Configs
    /\ \E q \in DOMAIN projects : q # last.pid /\ projects[q].status = "initializing"

\* C5 as claimed: every successful start_workflow finds the project
\* initializing, and a deployed or failed project is never moved by it.
C5_OnlyFromInitializing ==
    [][ /\ \A s \in Sessions, u \in Users, p \in ProjectIds, c \in Configs :
             (StartLoad(s, u, p, c) /\ sess'[s].pc = "start_commit") =>
                projects[p].status = "initializing"
        /\ \A s \in Sessions :
             (StartCommit(s) /\ sess[s].pid \in DOMAIN projects
                /\ projects[sess[s].pid].status \in {"deployed", "failed"}) =>
                projects'[sess[s].pid].status = projects[sess[s].pid].status
      ]_vars

\* C5 amended: start_workflow goes through for the caller's project exactly
\* when its status is none of analyzing, planning, generating, deploying
\* (initializing, configuring, deployed, failed, paused), and then moves that
\* project, and no other, to analyzing.
C5_FromEveryIdleStatus ==
    [][ /\ \A s \in Sessions, u \in Users, p \in ProjectIds, c \in Configs :
             StartLoad(s, u, p, c) =>
                (sess'[s].pc = "start_commit"
                    <=> /\ ~NotOwned(p, u)
                        /\ projects[p].status \in {"initializing", "configuring",
                                                   "deployed", "failed", "paused"})
        /\ \A s \in Sessions :
             (StartCommit(s) /\ sess[s].pid \in DOMAIN projects) =>
                /\ DOMAIN projects' = DOMAIN projects
                /\ \A q \in DOMAIN projects :
                     projects'[q].status = IF q = sess[s].pid THEN "analyzing"
                                           ELSE projects[q].status
      ]_vars

C5_Witness ==
    \E s \in Sessions :
        /\ sess[s].pc = "start_commit"
        /\ sess[s].pid \in DOMAIN projects
        /\ projects[sess[s].pid].status = "deployed"

\* C6: create_project for a repository (of the caller's) that already has a
\* project fails with ValueError "Project already exists for this repository"
\* (HTTP 400) and leaves the project table as it was.
C6_ConflictLeavesTable ==
    [][ /\ \A s \in Sessions, u \in Users, r \in RepoIds, n \in Names :
             (CreateCheckRepository(s, u, r, n)
                /\ r \in DOMAIN repositories /\ repositories[r].user_id = u) =>
                (sess'[s].pc = "create_existing" /\ sess'[s].repo = r)
        /\ \A s \in Sessions :
             (CreateCheckExisting(s) /\ HasProject(sess[s].repo)) =>
                /\ last' = Response("create", sess[s].user, 0, sess[s].repo,
                                    [kind |-> "ValueError",
                                     detail |-> "Project already exists for this repository",
                                     id |-> 0])
                /\ Respond("create", last'.result) =
                     [status_code |-> 400,
                      detail |-> "Project already exists for this repository"]
                /\ projects' = projects
                /\ nextId' = nextId
      ]_vars

C6_Witness ==
    /\ last.op = "create"
    /\ last.result.detail = "Project already exists for this repository"
    /\ HasProject(last.repo)
    /\ Cardinality(DOMAIN projects) = 1

\* C7: create_project answers a missing repository and another user's
\* repository with the same ValueError "Repository not found or access
\* denied", creates nothing, and does so before looking for an existing project.
C7_AccessDeniedFirst ==
    [][ \A s \in Sessions, u \in Users, r \in RepoIds, n \in Names :
          (CreateCheckRepository(s, u, r, n)
             /\ (r \notin DOMAIN repositories \/ repositories[r].user_id # u)) =>
             /\ last' = Response("create", u, 0, r,
                                 [kind |-> "ValueError",
                                  detail |-> "Repository not found or access denied",
                                  id |-> 0])
             /\ Respond("create", last'.result) =
                  [status_code |-> 400,
                   detail |-> "Repository not found or access denied"]
             /\ projects' = projects
             /\ nextId' = nextId
             /\ sess' = sess
      ]_vars

C7_Witness ==
    /\ last.op = "create"
    /\ last.result.detail = "Repository not found or access denied"
    /\ last.repo \in DOMAIN repositories
    /\ repositories[last.repo].user_id # last.user
    /\ HasProject(last.repo)

\* C8: the project a successful create_project inserts is initializing and
\* not_started, owned by the caller, bound to the given repository, and its
\* slug is a candidate of slugify(name) that no project of the caller held when
\* generate_unique_slug returned it.
C8_Candidates(base) ==
    {base} \cup {NextCandidate(base, k, 50) : k \in 1..MaxProjects}

C8_CreatedProject ==
    [][ /\ \A s \in Sessions :
             (CreateProbe(s) /\ sess'[s].pc = "create_insert") =>
                /\ sess'[s].probe.slug \in C8_Candidates(slugify(sess[s].name))
                /\ \A p \in DOMAIN projects :
                     projects[p].user_id = sess[s].user =>
                        projects[p].slug # sess'[s].probe.slug
        /\ \A s \in Sessions :
             CreateInsert(s) =>
                /\ nextId \notin DOMAIN projects
                /\ DOMAIN projects' = DOMAIN projects \cup {nextId}
                /\ \A p \in DOMAIN projects : projects'[p] = projects[p]
                /\ projects'[nextId].status = "initializing"
                /\ projects'[nextId].deployment_status = "not_started"
                /\ projects'[nextId].user_id = sess[s].user
                /\ projects'[nextId].repository_id = sess[s].repo
                /\ projects'[nextId].slug = sess[s].probe.slug
                /\ projects'[nextId].slug \in C8_Candidates(slugify(sess[s].name))
                /\ last'.result = [kind |-> "Project", detail |-> "", id |-> nextId]
      ]_vars

C8_Witness ==
    /\ last.op = "create"
    /\ last.result.kind = "Project"
    /\ last.result.id \in DOMAIN projects
    /\ projects[last.result.id].slug = <<"d","e","m","o","-","1">>
    /\ projects[last.result.id].name = <<"d","e","m","o","!">>
    /\ projects[last.result.id].user_id = last.user
    /\ projects[last.result.id].repository_id = last.repo

\* C9: get, update, delete, start_workflow and workflow_status answer a
\* project of another user exactly as they answer a missing id (None or
\* False, HTTP 404) and change nothing.
C9_Absent(op, u, p, result, detail) ==
    /\ last' = Response(op, u, p, None, result)
    /\ Respond(op, result) = [status_code |-> 404, detail |-> detail]
    /\ projects' = projects
    /\ nextId' = nextId
    /\ sess' = sess

C9_NotOwnedLooksAbsent ==
    [][ \A s \in Sessions, u \in Users, p \in ProjectIds :
          NotOwned(p, u) =>
             /\ GetRequest(s, u, p) =>
                  C9_Absent("get", u, p, ReturnNone, "Project not found")
             /\ WorkflowStatusRequest(s, u, p) =>
                  C9_Absent("workflow_status", u, p, ReturnNone, "Project not found")
             /\ DeleteLoad(s, u, p) =>
                  C9_Absent("delete", u, p, ReturnFalse, "Project not found")
             /\ \A updates \in Patches :
                  UpdateLoad(s, u, p, updates) =>
                     C9_Absent("update", u, p, ReturnNone, "Project not found")
             /\ \A c \in Configs :
                  StartLoad(s, u, p, c) =>
                     C9_Absent("start_workflow", u, p, ReturnFalse,
                               "Project not found or workflow already running")
      ]_vars

C9_Witness ==
    /\ last.op \in {"get", "update", "delete", "start_workflow", "workflow_status"}
    /\ last.result.kind \in {"None", "False"}
    /\ last.pid \in DOMAIN projects
    /\ projects[last.pid].user_id # last.user
    /\ projects[last.pid].status = "initializing"

\* C10: no operation done for one owner adds, removes or changes a project of
\* another owner, and the owner of a project never changes.
RowsOf(table, user_id) ==
    [p \in {q \in DOMAIN table : table[q].user_id = user_id} |-> table[p]]

C10_OwnerScoped ==
    [][ /\ \A p \in DOMAIN projects \cap DOMAIN projects' :
             projects'[p].user_id = projects[p].user_id
        /\ \A s \in Sessions :
             (sess[s].pc # "idle" /\ sess'[s].pc = "idle") =>
                \A b \in Users \ {sess[s].user} :
                    RowsOf(projects', b) = RowsOf(projects, b)
      ]_vars

\* C11: list_user_projects(owner, skip, limit) returns projects of owner only,
\* most recently updated first, exactly the rows skip+1 .. skip+limit of such an
\* ordering of all the owner's projects, and the total is the number of the
\* owner's projects whatever skip and limit are.
C11_Orderings(ids) ==
    {o \in [1..Cardinality(ids) -> ids] :
        /\ \A i, j \in DOMAIN o : i # j => o[i] # o[j]
        /\ \A i, j \in DOMAIN o :
             i < j => projects[o[i]].updated_at >= projects[o[j]].updated_at}

C11_ListWindow ==
    [][ /\ \A s \in Sessions :
             (sess[s].pc = "idle" /\ sess'[s].op = "list") =>
                /\ sess'[s].pc = "list_page"
                /\ projects' = projects
        /\ \A s \in Sessions :
             (ListPage(s) /\ sess[s].window.skip >= 0 /\ sess[s].window.limit >= 0) =>
                LET owned == {p \in DOMAIN projects :
                                 projects[p].user_id = sess[s].user}
                    skip  == sess[s].window.skip
                    limit == sess[s].window.limit
                    n     == Cardinality(owned)
                    size  == IF skip >= n THEN 0
                             ELSE IF limit < n - skip THEN limit ELSE n - skip
                IN  /\ last'.op = "list"
                    /\ last'.result.kind = "tuple"
                    /\ last'.result.total = n
                    /\ \A i \in DOMAIN last'.result.page :
                         last'.result.page[i] \in owned
                    /\ \E o \in C11_Orderings(owned) :
                         last'.result.page = [i \in 1..size |-> o[skip + i]]
                    /\ projects' = projects
      ]_vars

C11_Witness ==
    /\ last.op = "list"
    /\ last.result.kind = "tuple"
    /\ last.result.total = 2
    /\ Len(last.result.page) = 1
    /\ \E p \in DOMAIN projects :
         /\ p # last.result.page[1]
         /\ last.result.page[1] \in DOMAIN projects
         /\ projects[p].user_id = last.user
         /\ projects[last.result.page[1]].user_id = last.user
         /\ projects[p].updated_at > projects[last.result.page[1]].updated_at

\* C12 as claimed: update_project on an owned project gives every field named
\* in the patch its patch value, leaves every other field of the project as it
\* was, ignores keys that are no attribute, and returns the project.
C12_OnlyNamedFields ==
    [][ \A s \in Sessions :
          (sess[s].pc = "update_commit" /\ sess'[s].pc = "idle"
             /\ sess[s].pid \in DOMAIN projects) =>
             LET id == sess[s].pid
                 patch == sess[s].updates
             IN  /\ last'.result = [kind |-> "Project", detail |-> "", id |-> id]
                 /\ DOMAIN projects' = DOMAIN projects
                 /\ DOMAIN projects'[id] = DOMAIN projects[id]
                 /\ \A f \in DOMAIN projects[id] :
                      projects'[id][f] = IF f \in DOMAIN patch THEN patch[f]
                                         ELSE projects[id][f]
      ]_vars

\* C12 amended: as claimed, except that updated_at is set to the time of the
\* update when a named field gets a value other than the one it had (and is
\* left alone otherwise, so with an empty patch nothing at all changes); the
\* other projects are unchanged.
C12_NamedFieldsAndTimestamp ==
    [][ /\ \A s \in Sessions :
             (sess[s].pc = "idle" /\ sess'[s].op = "update"
                /\ sess'[s].pc # "idle") =>
                /\ sess'[s].pid \in DOMAIN projects
                /\ projects[sess'[s].pid].user_id = sess'[s].user
                /\ projects' = projects
        /\ \A s \in Sessions :
             (sess[s].pc = "update_commit" /\ sess'[s].pc = "idle"
                /\ sess[s].pid \in DOMAIN projects) =>
                LET id == sess[s].pid
                    patch == sess[s].updates
                    changed == {f \in DOMAIN patch \cap DOMAIN projects[id] :
                                   patch[f] # projects[id][f]}
                IN  /\ last'.result = [kind |-> "Project", detail |-> "", id |-> id]
                    /\ DOMAIN projects' = DOMAIN projects
                    /\ DOMAIN projects'[id] = DOMAIN projects[id]
                    /\ \A f \in DOMAIN projects[id] :
                         projects'[id][f] =
                            IF f \in DOMAIN patch THEN patch[f]
                            ELSE IF f = "updated_at" /\ changed # {} THEN now
                            ELSE projects[id][f]
                    /\ \A q \in DOMAIN projects \ {id} : projects'[q] = projects[q]
      ]_vars

C12_Witness ==
    /\ last.op = "update"
    /\ last.result.kind = "Project"
    /\ DOMAIN projects = {1, 2}
    /\ last.pid = 1
    /\ projects[1].status = "deployed"
    /\ projects[1].updated_at > projects[2].updated_at
    /\ projects[2].status = "initializing"

\* C13: delete_project on an owned project returns True, and then neither the
\* project nor any agent session, generated file or cloud resource that
\* referenced it is left, while everything else stays; a get or a delete of an
\* id that is not (or no longer) in the table answers not found; delete_project
\* on a missing or not-owned project returns False and removes nothing.
C13_DeleteCascades ==
    [][ /\ \A s \in Sessions, u \in Users, p \in ProjectIds :
             DeleteLoad(s, u, p) =>
                /\ projects' = projects
                /\ dependents' = dependents
                /\ IF p \notin DOMAIN projects \/ projects[p].user_id # u
                   THEN /\ last' = Response("delete", u, p, None,
                                            [kind |-> "False", detail |-> "", id |-> 0])
                        /\ Respond("delete", last'.result).status_code = 404
                        /\ sess' = sess
                   ELSE sess'[s].pc = "delete_commit" /\ sess'[s].pid = p
        /\ \A s \in Sessions :
             (sess[s].pc = "delete_commit" /\ sess'[s].pc = "idle"
                /\ sess[s].pid \in DOMAIN projects) =>
                LET id == sess[s].pid
                IN  /\ last'.result = [kind |-> "True", detail |-> "", id |-> 0]
                    /\ DOMAIN projects' = DOMAIN projects \ {id}
                    /\ \A q \in DOMAIN projects' : projects'[q] = projects[q]
                    /\ dependents' = {d \in dependents : d.project_id # id}
        /\ \A s \in Sessions, u \in Users, p \in ProjectIds :
             (GetRequest(s, u, p) /\ p \notin DOMAIN projects) =>
                /\ last'.result = [kind |-> "None", detail |-> "", id |-> 0]
                /\ Respond("get", last'.result).status_code = 404
        /\ \A d \in dependents' : d.project_id \in DOMAIN projects'
      ]_vars

C13_Witness ==
    /\ last.op \in {"get", "delete"}
    /\ last.result.kind \in {"None", "False"}
    /\ last.pid = 1
    /\ nextId > 1
    /\ 1 \notin DOMAIN projects
    /\ 2 \in DOMAIN projects
    /\ \A table \in {"agent_sessions", "generated_files", "cloud_resources"} :
         [table |-> table, project_id |-> 2] \in dependents

HeldBy(user_id, slug) ==
    \E p \in DOMAIN projects :
        projects[p].user_id = user_id /\ projects[p].slug = slug

C15_Candidate(k) ==
    LET base == IF Len(gen.base_slug) > gen.max_length - 10
                THEN SubSeq(gen.base_slug, 1, gen.max_length - 10)
                ELSE gen.base_slug
    IN  IF k = 0 THEN base ELSE base \o <<"-">> \o IntToStr(k)

C15_FirstFreeCandidate ==
    (gen.pc = "done" /\ gen.max_length >= 10) =>
        LET free == {k \in 0..999 : ~HeldBy(gen.user, C15_Candidate(k))}
        IN  free # {} =>
               \E k \in free :
                   /\ \A j \in free : k <= j
                   /\ gen.value = C15_Candidate(k)

C15_Witness ==
    /\ gen.pc = "done"
    /\ gen.calls = 1
    /\ gen.value = <<"d","e","m","o","-","2">>
    /\ HeldBy("u1", <<"d","e","m","o">>)
    /\ HeldBy("u1", <<"d","e","m","o","-","1">>)
    /\ HeldBy("u2", <<"d","e","m","o","-","2">>)
    /\ ~HeldBy("u1", <<"d","e","m","o","-","2">>)

C17_Terminates ==
    gen.pc = "done" =>
        LET probed == <<gen.st.base>> \o gen.built
            allTaken == \A k \in 1..1000 :
                           k <= Len(probed) /\ HeldBy(gen.user, probed[k])
        IN  /\ gen.probes >= 1
            /\ gen.probes <= 1000
            /\ gen.probes <= Len(probed)
            /\ \A k \in 1..(gen.probes - 1) : HeldBy(gen.user, probed[k])
            /\ IF allTaken
               THEN /\ gen.probes = 1000
                    /\ \E u \in UuidPrefixes :
                         gen.value =
                            SubSeq(gen.st.base, 1,
                                   IF Len(gen.st.base) < 20 THEN Len(gen.st.base)
                                   ELSE 20)
                            \o <<"-">> \o u
               ELSE /\ gen.value = probed[gen.probes]
                    /\ ~HeldBy(gen.user, gen.value)

C17_Witness ==
    /\ gen.pc = "done"
    /\ gen.probes = 1000
    /\ gen.st.counter = 1001
    /\ Len(gen.value) = 13
    /\ SubSeq(gen.value, 1, 5) = <<"d","e","m","o","-">>
    /\ \A k \in 1..999 : HeldBy(gen.user, <<"d","e","m","o","-">> \o IntToStr(k))

\* C18: slugify(slugify(s)) = slugify(s) for every s, and slugify(s) has only
\* the characters a-z, 0-9 and "-", no hyphen at either end and no two
\* hyphens in a row.
C18_WellFormed(slug) ==
    /\ \A i \in DOMAIN slug :
         slug[i] \in {"a","b","c","d","e","f","g","h","i","j","k","l","m",
                      "n","o","p","q","r","s","t","u","v","w","x","y","z",
                      "0","1","2","3","4","5","6","7","8","9","-"}
    /\ slug # <<>> => (slug[1] # "-" /\ slug[Len(slug)] # "-")
    /\ \A i \in 1..(Len(slug) - 1) : ~(slug[i] = "-" /\ slug[i + 1] = "-")

C18_Idempotent ==
    /\ gen.pc \in {"slug", "slug2"} => C18_WellFormed(gen.slug)
    /\ gen.pc = "slug2" => gen.again = gen.slug

C18_Witness ==
    /\ gen.pc = "slug2"
    /\ gen.text = <<"A", "!", "-", "b">>
    /\ gen.slug = <<"a", "-", "b">>
    /\ gen.again = <<"a", "-", "b">>

\* C19: slugify of the empty string, and of a string without any of a-z, A-Z,
\* 0-9, is "project".
C19_FallbackForEmpty ==
    (gen.pc \in {"slug", "slug2"}
        /\ \A i \in DOMAIN gen.text : gen.text[i] \notin {"A", "b", "1"}) =>
        gen.slug = <<"p","r","o","j","e","c","t">>

\* C20: when create_project comes to insert a slug that a project of the same
\* user holds by then (the collision slipped past the probe), the insert is
\* refused, the project table stays as it was and the caller gets the
\* conflict outcome (ValueError, HTTP 400), not the internal error (HTTP 500).
C20_CollisionIsConflict ==
    [][ \A s \in Sessions :
          (sess[s].pc = "create_insert" /\ sess'[s].pc = "idle"
             /\ \E p \in DOMAIN projects :
                   /\ projects[p].user_id = sess[s].user
                   /\ projects[p].slug = sess[s].probe.slug) =>
             /\ projects' = projects
             /\ last'.op = "create"
             /\ last'.result.kind = "ValueError"
             /\ Respond("create", last'.result).status_code = 400
      ]_vars

\* C25: of two start_workflow requests for the same project that are handled
\* concurrently, at most one returns True: a start_workflow that returns True
\* commits while the stored status of the project is outside the in-flight set,
\* so the workflow is never started twice without the status leaving the
\* in-flight set in between. (Under SpecStart only start_workflow brings a
\* status into the in-flight set.)
C25_StartedOnce ==
    [][ \A s \in Sessions :
          (sess[s].pc = "start_commit" /\ sess'[s].pc = "idle"
             /\ last'.result = ReturnTrue) =>
             ~AlreadyRunning(projects[sess[s].pid])
      ]_vars

\* an update_project call of session s commits and returns the project
C24_Updated(s) ==
    /\ sess[s].pc = "update_commit"
    /\ sess'[s].pc = "idle"
    /\ last'.result.kind = "Project"

C24_ThroughEndpoint(s) == "absent" \notin DOMAIN sess[s].body

\* C24: through the update endpoint with its request schema, a caller sets the
\* status of an owned project to any value of the enumeration from any current
\* status: an answered PUT whose body names a status leaves the project with
\* that status.
C24_EndpointSetsStatus ==
    [][ \A s \in Sessions :
          (C24_Updated(s) /\ C24_ThroughEndpoint(s)
             /\ "status" \in DOMAIN sess[s].body) =>
             projects'[sess[s].pid].status = sess[s].body.status
      ]_vars

\* C24 (amended): ProjectService.update_project called with a patch that names
\* the status sets the status of an owned project to that value from any
\* current status, with no transition check, so that start_workflow is no
\* longer refused for a project that was analyzing; a request through the
\* update endpoint never changes the status, its schema having no such field.
C24_ServiceSetsStatus ==
    [][ \A s \in Sessions :
          C24_Updated(s) =>
             LET id == sess[s].pid
             IN  IF C24_ThroughEndpoint(s)
                 THEN projects'[id].status = projects[id].status
                 ELSE /\ projects'[id].status = sess[s].updates.status
                      /\ (sess[s].updates.status \notin InFlightStatuses =>
                             ~AlreadyRunning(projects'[id]))
      ]_vars

\* a project that start_workflow had started (its current agent is set) was
\* reset to initializing by an update_project call, which has just returned
C24_Witness ==
    /\ last.op = "update"
    /\ last.result.kind = "Project"
    /\ last.pid \in DOMAIN projects
    /\ projects[last.pid].status = "initializing"
    /\ projects[last.pid].current_agent = "repository_analyzer"
    /\ ~AlreadyRunning(projects[last.pid])

\* a create_installation call is answered in this step
C22_Answered ==
    /\ last'.op = "create_installation"
    /\ \/ last' # last
       \/ \E s \in Sessions : sess[s].pc # "idle" /\ sess'[s].pc = "idle"

C22_Failed(result) == result.kind \in {"ValueError", "IntegrityError"}

\* C22: every installation id is linked to exactly one user: no two rows of
\* github_installations have the same installation id, no row ever changes its
\* installation id or its user, and a create_installation call that names an
\* installation id which a row links to a different user fails.
C22_OneUserPerInstallation ==
    [][ /\ \A i, j \in DOMAIN installations' :
              installations'[i].installation_id = installations'[j].installation_id
                 => i = j
        /\ \A i \in DOMAIN installations :
              /\ i \in DOMAIN installations'
              /\ installations'[i].installation_id = installations[i].installation_id
              /\ installations'[i].user_id = installations[i].user_id
        /\ (C22_Answered
              /\ \E i \in DOMAIN installations :
                    /\ installations[i].installation_id = last'.installation
                    /\ installations[i].user_id # last'.user) =>
              /\ C22_Failed(last'.result)
              /\ installations' = installations
      ]_vars

\* a call for an installation id that an inactive row links to the other user
\* was refused by the unique index
C22_Witness ==
    /\ last.op = "create_installation"
    /\ last.result = DuplicateKey
    /\ \E i \in DOMAIN installations :
          /\ installations[i].installation_id = last.installation
          /\ installations[i].user_id # last.user
          /\ ~installations[i].is_active

\* C26: create_installation is all-or-nothing. With the calls made one after
\* the other: when a call has failed, the installation it found active for its
\* user (last.row, if there was one) is still active, the table being as it
\* was before the call.
C26_AllOrNothing ==
    (/\ last.op = "create_installation"
     /\ C22_Failed(last.result)
     /\ \A s \in Sessions : sess[s].pc = "idle") =>
        (last.row = NoRow \/ installations[last.row].is_active)

\* C27: each user has at most one installation row with is_active true.
C27_OneActivePerUser ==
    \A u \in Users : Cardinality(ActiveByUserId(u)) <= 1

\* the operations of SpecImport that an endpoint serves
C21_Served == {"create", "import"}

C21_Raised(result) ==
    result.kind \in {"ValueError", "Exception", "IntegrityError", "StaleDataError",
                     "InvalidRequestError"}

\* the text occurs in a field of the response body
C21_Shows(content, text) ==
    \E f \in DOMAIN content \ {"success"} :
        \E i \in DOMAIN content[f] : content[f][i] = text

\* C21: every failing request yields a response that carries a success flag
\* and a human-readable message (a message or error text), and with debug mode
\* off the response never contains the text of the exception that was raised.
C21_StructuredFailure ==
    last.op \in C21_Served =>
        LET r == EndpointResponse(last.op, last.result)
        IN  r.status_code >= 400 =>
               /\ "success" \in DOMAIN r.content
               /\ r.content.success = FALSE
               /\ {"message", "error"} \cap DOMAIN r.content # {}
               /\ (~settings.DEBUG /\ C21_Raised(last.result)) =>
                     ~C21_Shows(r.content, last.result.detail)

\* C28: the repository a successful import_github_repository returns belongs
\* to the importing user, who can therefore create a project from its id.
C28_ImportedIsOwned ==
    (last.op = "import" /\ last.result = RepositoryInstance) =>
        /\ repositories[last.repo].user_id = last.user
        /\ FindRepository(last.repo, last.user) = last.repo

\* C29: after a successful import_github_repository the repository is
\* connected and is in the get_repositories_by_user_id listing of the
\* importer; stated for the rows that belong to the importer.
C29_ImportedIsListed ==
    (/\ last.op = "import"
     /\ last.result = RepositoryInstance
     /\ repositories[last.repo].user_id = last.user) =>
        /\ repositories[last.repo].is_connected
        /\ last.repo \in RepositoriesByUserId(last.user)

\* the handling of a delivery ends in this step
C23_Processed == delivery' # delivery /\ delivery'.pc = "done"

\* C23: user provisioning is an upsert keyed by the subject id: once a
\* verified user.created or user.updated event with valid user data for a
\* subject is processed, exactly one record has that subject id and its
\* profile fields are those of the event; a verified user.deleted event
\* deactivates the record and removes none; an event that fails verification
\* changes no record.
C23_Upsert ==
    [][ C23_Processed =>
          LET event == delivery'.event
              user_data == ExtractUserData(event)
              rows == {i \in DOMAIN users' : users'[i].clerk_user_id = event.data.id}
          IN  /\ (/\ delivery'.verified
                  /\ event.type \in {"user.created", "user.updated"}
                  /\ user_data # NoUserData) =>
                     /\ Cardinality(rows) = 1
                     /\ \A i \in rows :
                           /\ users'[i].email = user_data.email
                           /\ users'[i].full_name = user_data.full_name
                           /\ users'[i].first_name = user_data.first_name
                           /\ users'[i].last_name = user_data.last_name
              /\ (delivery'.verified /\ event.type = "user.deleted") =>
                     /\ Len(users') = Len(users)
                     /\ \A i \in rows : ~users'[i].is_active
              /\ ~delivery'.verified => users' = users
      ]_vars

\* the header is "sha256=" followed by the HMAC-SHA256 of the body under the
\* shared secret
C30_Signed ==
    delivery.signature = Sha256Prefix \o Hmac(settings.GITHUB_WEBHOOK_SECRET, delivery.body)

C30_Rejected(outcome) == ~outcome.verified /\ outcome.status_code \in {400, 401, 403}

\* C30: both GitHub webhook handlers accept exactly the same requests: each
\* goes on to parse the payload if and only if the signature header is
\* "sha256=" followed by the HMAC-SHA256 of the raw body under the shared
\* secret, and rejects every other request as a verification failure.
C30_SameVerification ==
    (delivery.pc = "github" /\ delivery.first # NoOutcome /\ delivery.second # NoOutcome) =>
        /\ delivery.first.verified <=> C30_Signed
        /\ delivery.second.verified <=> C30_Signed
        /\ ~C30_Signed => C30_Rejected(delivery.first) /\ C30_Rejected(delivery.second)

====
